---------------------------- MODULE Spec2Model ----------------------------
(***************************************************************************)
(* A model of gerber_viewer's primitive compiler, GerberLayer::new         *)
(* (src/src/layer.rs): the block discovery scan, the pass-3 interpreter    *)
(* loop with its aperture-block replay stack and its step-and-repeat       *)
(* state, and the bounding-box fold.                                       *)
(*                                                                         *)
(* Numbers.  The code computes in f64.  The model computes in integers:    *)
(* every length of an input is an even integer, so that the code's         *)
(* halvings (diameter / 2.0, (min + max) / 2.0) are exact.  Instruction    *)
(* indices are 0-based as in the code; CmdAt(i) is commands[i].            *)
(* Option<T> is a sequence of length 0 (None) or 1 (Some).                 *)
(***************************************************************************)
EXTENDS Integers, Sequences, FiniteSets, TLC

\* ------------------------------------------------------------------ bounds

\* Deepest aperture-block replay stack the model follows (a block that
\* flashes itself nests without end in the code).
MaxDepth == 3
\* Largest step-and-repeat count per axis in the generated streams.
MaxRepeat == 2

\* ----------------------------------------------------------- Option, points

None == << >>
Some(v) == << v >>
IsSome(o) == Len(o) = 1
Unwrap(o) == o[1]

Point(x, y) == << x, y >>
PX(p) == p[1]
PY(p) == p[2]
AddVec(p, v) == << p[1] + v[1], p[2] + v[2] >>
Half(v) == v \div 2
Min2(a, b) == IF a <= b THEN a ELSE b
Max2(a, b) == IF a >= b THEN a ELSE b

\* ------------------------------------------------------------- instructions

ApertureBlockOpen(code) == [op |-> "ABOpen", code |-> code]
ApertureBlockClose == [op |-> "ABClose"]
StepAndRepeatOpen(rx, ry, dx, dy) ==
    [op |-> "SROpen", repeat_x |-> rx, repeat_y |-> ry, distance_x |-> dx, distance_y |-> dy]
StepAndRepeatClose == [op |-> "SRClose"]
SetInterpolationMode(m) == [op |-> "InterpolationMode", mode |-> m]
SetQuadrantMode(m) == [op |-> "QuadrantMode", mode |-> m]
RegionMode(enabled) == [op |-> "RegionMode", enabled |-> enabled]
SelectAperture(code) == [op |-> "SelectAperture", code |-> code]
\* Coordinates { x: Option, y: Option }
Coordinates(x, y) == [x |-> x, y |-> y]
XY(x, y) == Coordinates(Some(x), Some(y))
Move(coords) == [op |-> "Move", coords |-> coords]
\* offset: Option<CoordinateOffset { x: Option, y: Option }>
Interpolate(coords, offset) == [op |-> "Interpolate", coords |-> coords, offset |-> offset]
Flash(coords) == [op |-> "Flash", coords |-> coords]
ApertureDefinition(code, aperture) == [op |-> "ApertureDefinition", code |-> code, aperture |-> aperture]
\* any command the passes ignore (unit, format, comment, ...)
OtherCommand == [op |-> "Other"]

\* Aperture variants of gerber_types that the streams use
Circle(d, hole) == [kind |-> "Circle", diameter |-> d, hole_diameter |-> hole]
Rectangle(x, y) == [kind |-> "Rectangle", x |-> x, y |-> y]
Obround(x, y) == [kind |-> "Obround", x |-> x, y |-> y]
\* (the model's Polygon aperture has no hole: the flash does not read it)
Polygon(diameter, vertices, rotation) ==
    [kind |-> "Polygon", diameter |-> diameter, vertices |-> vertices,
     rotation |-> rotation]

\* LocalApertureKind
StandardAperture(ap) == [local |-> "Standard", aperture |-> ap]
BlockAperture(code, start, end) == [local |-> "Block", code |-> code, start |-> start, end |-> end]

\* ------------------------------------------------------------------- state

VARIABLES
    commands,           \* the instruction stream, GerberLayer::commands
    pc,                 \* "discover" (block discovery scan), "execute" (pass 3),
                        \* "done" (layer returned), "panicked" (unwrap on None);
                        \* "call" and "returned" for a function called on its own
    scan,               \* index of the discovery scan's for loop
    discovery_stack,    \* aperture_block_discovery_stack
    apertures,          \* HashMap<i32, LocalApertureKind>, code -> Option
    index,              \* pass 3: index
    replay_checked,     \* pass 3: the replay-completion test at the loop head has
                        \* popped a frame in this iteration (the fetch follows)
    current_pos,
    current_aperture,   \* Option<&LocalApertureKind>
    current_aperture_width,
    interpolation_mode,
    quadrant_mode,
    aperture_selection_errors,
    current_region_vertices,
    in_region,
    step_repeat_state,  \* Option<StepRepeatState>
    step_repeat_offset,
    replay_stack,       \* aperture_block_replay_stack
    aperture_block_offset,
    layer_primitives,
    bounding_box,       \* GerberLayer::bounding_box, an Option until computed
    argument,           \* a function called on its own: its argument, and
    returned            \* its return value, an Option until it has returned

vars == << commands, pc, scan, discovery_stack, apertures, index, replay_checked,
           current_pos, current_aperture, current_aperture_width, interpolation_mode,
           quadrant_mode, aperture_selection_errors, current_region_vertices,
           in_region, step_repeat_state, step_repeat_offset, replay_stack,
           aperture_block_offset, layer_primitives, bounding_box, argument,
           returned >>

callVars == << argument, returned >>
discoveryVars == << scan, discovery_stack, apertures >>
modeVars == << interpolation_mode, quadrant_mode >>
regionVars == << current_region_vertices, in_region >>
stepRepeatVars == << step_repeat_state, step_repeat_offset >>

NumCommands == Len(commands)
\* commands.get(i), for an i known to be in range
CmdAt(i) == commands[i + 1]

\* The aperture codes the streams use (the keys the HashMap can hold).
ApertureCodes == {10, 11, 20, 21, 30}

\* ------------------------------------------------------ angles and sampling

\* Angles are integers in hundredths of a degree; f64's radians are not
\* representable.  A full turn (2.0 * PI) is 36000, PI / 2.0 is 9000.
FullTurn == 360 * 100
HalfTurn == 180 * 100
QuarterTurn == 90 * 100
\* sin and cos are fixed-point values scaled by TrigScale
TrigScale == 5 * 100

Abs(v) == IF v < 0 THEN 0 - v ELSE v

RECURSIVE Gcd(_, _)
Gcd(a, b) == IF b = 0 THEN a ELSE Gcd(b, a % b)

\* f64::sqrt on the integers: the largest r with r * r <= v
RECURSIVE SqrtFrom(_, _)
SqrtFrom(v, r) == IF (r + 1) * (r + 1) > v THEN r ELSE SqrtFrom(v, r + 1)
Sqrt(v) == SqrtFrom(v, 0)

\* atan(y / x) for 0 <= y <= x <= 8, x >= 1, rounded to hundredths of a degree:
\* AtanTable[x][y + 1]
AtanTable ==
    << << 0, 4500 >>,
       << 0, 2657, 4500 >>,
       << 0, 1843, 3369, 4500 >>,
       << 0, 1404, 2657, 3687, 4500 >>,
       << 0, 1131, 2180, 3096, 3866, 4500 >>,
       << 0, 946, 1843, 2657, 3369, 3981, 4500 >>,
       << 0, 813, 1595, 2320, 2974, 3554, 4060, 4500 >>,
       << 0, 713, 1404, 2056, 2657, 3201, 3687, 4119, 4500 >> >>

\* f64::atan2(y, x), in (-HalfTurn, HalfTurn]; atan2(0, 0) = 0
Atan2(y, x) ==
    IF x = 0 /\ y = 0 THEN 0
    ELSE LET g == Gcd(Abs(x), Abs(y))
             ax == Abs(x) \div g
             ay == Abs(y) \div g
             first == IF ay <= ax THEN AtanTable[ax][ay + 1]
                      ELSE QuarterTurn - AtanTable[ay][ax + 1]
         IN  IF x >= 0 /\ y >= 0 THEN first
             ELSE IF x < 0 /\ y >= 0 THEN HalfTurn - first
             ELSE IF x < 0 THEN first - HalfTurn
             ELSE 0 - first

\* f64::sin on [0, HalfTurn] (Bhaskara's rational approximation, exact at
\* 0, 30, 90, 150 and 180 degrees), scaled by TrigScale
SinHalfTurn(a) ==
    LET t == (a \div 10) * (1800 - a \div 10)
    IN  (4 * t * TrigScale) \div (4050000 - t)

Sin(a) ==
    LET n == a % FullTurn
    IN  IF n <= HalfTurn THEN SinHalfTurn(n) ELSE 0 - SinHalfTurn(n - HalfTurn)

Cos(a) == Sin(a + QuarterTurn)

\* radius * (a fixed-point sine or cosine), rounded towards zero
Scaled(radius, trig) ==
    IF trig >= 0 THEN (radius * trig) \div TrigScale
    ELSE 0 - ((radius * (0 - trig)) \div TrigScale)

\* ------------------------------------------------------------- primitives

ExposureAdd == "Add"
ExposureCutOut == "CutOut"

CircleGerberPrimitive(center, diameter, exposure) ==
    [prim |-> "Circle", center |-> center, diameter |-> diameter, exposure |-> exposure]
RectangleGerberPrimitive(origin, width, height, exposure) ==
    [prim |-> "Rectangle", origin |-> origin, width |-> width, height |-> height,
     exposure |-> exposure]
LineGerberPrimitive(start, end, width, exposure) ==
    [prim |-> "Line", start |-> start, end |-> end, width |-> width, exposure |-> exposure]
ArcGerberPrimitive(center, radius, width, start_angle, sweep_angle, exposure) ==
    [prim |-> "Arc", center |-> center, radius |-> radius, width |-> width,
     start_angle |-> start_angle, sweep_angle |-> sweep_angle, exposure |-> exposure]
PolygonGerberPrimitive(center, exposure, relative_vertices, is_convex) ==
    [prim |-> "Polygon", center |-> center, exposure |-> exposure,
     relative_vertices |-> relative_vertices, is_convex |-> is_convex]

\* const EPSILON: f64 = 1e-10: two units of the integer angles, so that a
\* sweep one unit away from 0 or from a full turn is within EPSILON of it and
\* a sweep two units away is not
ArcEpsilon == 2

\* a full circle only for a sweep of exactly 0 or exactly one full turn
IsExactFullCircle(arc) ==
    arc.sweep_angle = 0 \/ Abs(arc.sweep_angle) = FullTurn

is_full_circle(arc) ==
    \/ Abs(arc.sweep_angle) < ArcEpsilon
    \/ Abs(Abs(arc.sweep_angle) - FullTurn) < ArcEpsilon

ArcSteps(arc) == IF is_full_circle(arc) THEN 33 ELSE 32

\* the angle of sample i (0-based) of generate_points:
\* start_angle +/- angle_step * i, angle_step = abs_sweep / (steps - 1)
SampleAngle(arc, i) ==
    LET effective_sweep == IF is_full_circle(arc) THEN FullTurn ELSE arc.sweep_angle
        turned == (Abs(effective_sweep) * i) \div (ArcSteps(arc) - 1)
    IN  IF effective_sweep >= 0 THEN arc.start_angle + turned
        ELSE arc.start_angle - turned

SamplePoint(arc, i) ==
    Point(Scaled(arc.radius, Cos(SampleAngle(arc, i))),
          Scaled(arc.radius, Sin(SampleAngle(arc, i))))

\* ArcGerberPrimitive::generate_points: points relative to the centre
generate_points(arc) ==
    LET steps == ArcSteps(arc)
    IN  [k \in 1..steps |->
            IF is_full_circle(arc) /\ k = steps
            THEN SamplePoint(arc, 0)          \* points[steps - 1] = points[0]
            ELSE SamplePoint(arc, k - 1)]


\* ---------------------------------------------------------------- polygons

\* Winding::from_vertices: the shoelace sum; > 0 is Clockwise
RECURSIVE ShoelaceFrom(_, _)
ShoelaceFrom(vertices, i) ==
    IF i > Len(vertices) THEN 0
    ELSE LET j == (i % Len(vertices)) + 1
         IN  (PX(vertices[i]) * PY(vertices[j]) - PX(vertices[j]) * PY(vertices[i]))
             + ShoelaceFrom(vertices, i + 1)

WindingFromVertices(vertices) ==
    IF ShoelaceFrom(vertices, 1) > 0 THEN "Clockwise" ELSE "CounterClockwise"

\* geometry::is_convex: the loop from vertex i (1-based) with the sign so far
RECURSIVE ConvexFrom(_, _, _)
ConvexFrom(vertices, i, sign) ==
    IF i > Len(vertices) THEN TRUE
    ELSE LET n == Len(vertices)
             p1 == vertices[i]
             p2 == vertices[(i % n) + 1]
             p3 == vertices[((i + 1) % n) + 1]
             cross == (PX(p2) - PX(p1)) * (PY(p3) - PY(p2))
                      - (PY(p2) - PY(p1)) * (PX(p3) - PX(p2))
         IN  IF sign = 0
             THEN ConvexFrom(vertices, i + 1, IF cross > 0 THEN 1 ELSE 0 - 1)
             ELSE IF (cross > 0 /\ sign < 0) \/ (cross < 0 /\ sign > 0)
                  THEN FALSE
                  ELSE ConvexFrom(vertices, i + 1, sign)

is_convex(vertices) ==
    IF Len(vertices) < 3 THEN TRUE ELSE ConvexFrom(vertices, 1, 0)

\* let epsilon = 1e-6: two units of the integer coordinates, so that vertices
\* one unit apart are distinct and within epsilon of each other
DedupEpsilon == 2

WithinEpsilon(a, b, epsilon) ==
    Abs(PX(a) - PX(b)) < epsilon /\ Abs(PY(a) - PY(b)) < epsilon

\* the indices dedup_with_epsilon marks in to_remove, scanning from i with
\* last_index the last retained one
RECURSIVE ToRemoveFrom(_, _, _, _)
ToRemoveFrom(vertices, i, last_index, epsilon) ==
    IF i > Len(vertices) THEN {}
    ELSE IF WithinEpsilon(vertices[last_index], vertices[i], epsilon)
         THEN {i} \cup ToRemoveFrom(vertices, i + 1, last_index, epsilon)
         ELSE ToRemoveFrom(vertices, i + 1, i, epsilon)

RECURSIVE KeepFrom(_, _, _)
KeepFrom(vertices, i, removed) ==
    IF i > Len(vertices) THEN << >>
    ELSE IF i \in removed THEN KeepFrom(vertices, i + 1, removed)
         ELSE << vertices[i] >> \o KeepFrom(vertices, i + 1, removed)

\* a deduplication without the test for too few remaining vertices
DedupWithoutMinimum(vertices, epsilon) ==
    IF Len(vertices) < 2 THEN vertices
    ELSE KeepFrom(vertices, 1, ToRemoveFrom(vertices, 2, 1, epsilon))

dedup_with_epsilon(vertices, epsilon) ==
    IF Len(vertices) < 2 THEN vertices
    ELSE LET to_remove == ToRemoveFrom(vertices, 2, 1, epsilon)
         IN  IF Len(vertices) - Cardinality(to_remove) < 3
             THEN vertices
             ELSE KeepFrom(vertices, 1, to_remove)

Reverse(seq) == [k \in 1..Len(seq) |-> seq[Len(seq) + 1 - k]]

\* GerberPrimitive::new_polygon (the tessellation mesh of a concave polygon,
\* computed by the lyon crate, is not part of the model)
new_polygon(center, vertices, exposure) ==
    LET convex == is_convex(vertices)
        wound == IF WindingFromVertices(vertices) = "Clockwise"
                 THEN Reverse(vertices) ELSE vertices
    IN  PolygonGerberPrimitive(center, exposure,
                               dedup_with_epsilon(wound, DedupEpsilon), convex)

\* ----------------------------------------------------------- bounding boxes

\* f64::MAX; f64::MIN is its negation
F64Max == 1000000

BoundingBox(min, max) == [min |-> min, max |-> max]

\* BoundingBox::default()
BoundingBoxDefault == BoundingBox(Point(F64Max, F64Max), Point(0 - F64Max, 0 - F64Max))

\* an expansion that moves the maximum corner only
ExpandMaxOnly(self, other) ==
    BoundingBox(self.min,
                Point(Max2(PX(self.max), PX(other.max)), Max2(PY(self.max), PY(other.max))))

\* BoundingBox::expand
expand(self, other) ==
    BoundingBox(Point(Min2(PX(self.min), PX(other.min)), Min2(PY(self.min), PY(other.min))),
                Point(Max2(PX(self.max), PX(other.max)), Max2(PY(self.max), PY(other.max))))

\* a box that is empty when it has no extent
HasNoExtent(self) ==
    PX(self.max) <= PX(self.min) /\ PY(self.max) <= PY(self.min)

\* BoundingBox::is_empty: self.eq(&BoundingBox::default())
is_empty(self) == self = BoundingBoxDefault

\* a square of half-side r about p
SquareAbout(p, r) == BoundingBox(Point(PX(p) - r, PY(p) - r), Point(PX(p) + r, PY(p) + r))

\* the least and the greatest of a non-empty set of numbers
SetMin(values) == CHOOSE m \in values : \A v \in values : m <= v
SetMax(values) == CHOOSE m \in values : \A v \in values : m >= v

\* BoundingBox::from_points: the running minimum and maximum of each
\* coordinate, from (f64::MAX, f64::MAX) and (f64::MIN, f64::MIN)
from_points(points) ==
    LET xs == { PX(points[k]) : k \in DOMAIN points }
        ys == { PY(points[k]) : k \in DOMAIN points }
    IN  BoundingBox(Point(SetMin(xs \cup {F64Max}), SetMin(ys \cup {F64Max})),
                    Point(SetMax(xs \cup {0 - F64Max}), SetMax(ys \cup {0 - F64Max})))

\* ArcGerberPrimitive::bounding_box: BoundingBox::default() expanded by a
\* square of the stroke width about every sampled point, which is the box of
\* the sampled points grown by half the width
ArcBoundingBox(arc) ==
    LET points == generate_points(arc)
        sampled == from_points([k \in DOMAIN points |-> AddVec(arc.center, points[k])])
        half_width == Half(arc.width)
    IN  BoundingBox(Point(PX(sampled.min) - half_width, PY(sampled.min) - half_width),
                    Point(PX(sampled.max) + half_width, PY(sampled.max) + half_width))

\* WithBoundingBox::bounding_box of each primitive kind
PrimitiveBoundingBox(p) ==
    CASE p.prim = "Circle" -> SquareAbout(p.center, Half(p.diameter))
      [] p.prim = "Arc" -> ArcBoundingBox(p)
      [] p.prim = "Rectangle" ->
            BoundingBox(p.origin, Point(PX(p.origin) + p.width, PY(p.origin) + p.height))
      [] p.prim = "Line" ->
            expand(SquareAbout(p.start, Half(p.width)), SquareAbout(p.end, Half(p.width)))
      [] p.prim = "Polygon" ->
            from_points([k \in 1..Len(p.relative_vertices) |->
                            AddVec(p.relative_vertices[k], p.center)])

\* GerberLayer::calculate_bounding_box: the box after the first n primitives
RECURSIVE BoundingBoxFrom(_, _)
BoundingBoxFrom(primitives, n) ==
    IF n = 0 THEN BoundingBoxDefault
    ELSE expand(BoundingBoxFrom(primitives, n - 1), PrimitiveBoundingBox(primitives[n]))

calculate_bounding_box(primitives) == BoundingBoxFrom(primitives, Len(primitives))


\* rotation * PI / 180.0: degrees to the angle unit
DegreesToAngle(degrees) == degrees * 100

\* (x, y) turned by angle about the origin
Rotated(x, y, angle) ==
    Point(Scaled(x, Cos(angle)) - Scaled(y, Sin(angle)),
          Scaled(x, Sin(angle)) + Scaled(y, Cos(angle)))

\* vertex i (0-based) of the regular polygon of a Polygon aperture: at angle
\* 2 PI i / vertices_count on the circle of the diameter, turned by the
\* rotation if there is one
PolygonVertex(polygon, i) ==
    LET radius == Half(polygon.diameter)
        angle == (FullTurn * i) \div polygon.vertices
        x == Scaled(radius, Cos(angle))
        y == Scaled(radius, Sin(angle))
    IN  IF IsSome(polygon.rotation)
        THEN Rotated(x, y, DegreesToAngle(Unwrap(polygon.rotation)))
        ELSE Point(x, y)

\* ------------------------------------------------------------------- macros

\* The macro variables the streams use (the keys a MacroContext can hold).
MacroVariables == 1..3

\* MacroContext::default(): no variable has a value
MacroContextDefault == [n \in MacroVariables |-> None]

\* MacroContext::put
MacroContextPut(context, number, value) == [context EXCEPT ![number] = Some(value)]

\* Result<value, ExpressionEvaluationError>
Ok(value) == [ok |-> TRUE, value |-> value]
Err == [ok |-> FALSE]

\* Expressions, as the evaluator reads their text: a number, a variable `$n`,
\* a sum, a quotient, and a text that does not parse.
ExprNumber(v) == [expr |-> "number", value |-> v]
ExprVariable(n) == [expr |-> "variable", variable |-> n]
ExprSum(a, b) == [expr |-> "sum", left |-> a, right |-> b]
ExprQuotient(a, b) == [expr |-> "quotient", left |-> a, right |-> b]
ExprMalformed == [expr |-> "malformed"]

\* evaluate_expression: a value, or an error for an unknown variable, a
\* malformed expression or a division by zero
RECURSIVE evaluate_expression(_, _)
evaluate_expression(expression, context) ==
    CASE expression.expr = "number" -> Ok(expression.value)
      [] expression.expr = "variable" ->
            IF IsSome(context[expression.variable])
            THEN Ok(Unwrap(context[expression.variable])) ELSE Err
      [] expression.expr \in {"sum", "quotient"} ->
            LET left == evaluate_expression(expression.left, context)
                right == evaluate_expression(expression.right, context)
            IN  IF ~left.ok \/ ~right.ok THEN Err
                ELSE IF expression.expr = "sum" THEN Ok(left.value + right.value)
                ELSE IF right.value = 0 THEN Err
                ELSE Ok(left.value \div right.value)
      [] expression.expr = "malformed" -> Err

\* MacroDecimal
DecimalValue(v) == [decimal |-> "Value", value |-> v]
DecimalVariable(n) == [decimal |-> "Variable", variable |-> n]
DecimalExpression(e) == [decimal |-> "Expression", expression |-> e]

\* macro_decimal_to_f64
macro_decimal_to_f64(decimal, context) ==
    CASE decimal.decimal = "Value" -> Ok(decimal.value)
      [] decimal.decimal = "Variable" ->
            evaluate_expression(ExprVariable(decimal.variable), context)
      [] decimal.decimal = "Expression" ->
            evaluate_expression(decimal.expression, context)

\* macro_decimal_pair_to_f64: both decimals, or the first error
macro_decimal_pair_to_f64(pair, context) ==
    LET x == macro_decimal_to_f64(pair[1], context)
        y == macro_decimal_to_f64(pair[2], context)
    IN  IF x.ok /\ y.ok THEN Ok(Point(x.value, y.value)) ELSE Err

\* macro_integer_to_u32
macro_integer_to_u32(integer, context) == macro_decimal_to_f64(integer, context)

\* macro_boolean_to_bool: a literal, or a variable that is on when it is 1
BooleanValue(b) == [boolean |-> "Value", value |-> b]
BooleanVariable(n) == [boolean |-> "Variable", variable |-> n]
macro_boolean_to_bool(boolean, context) ==
    IF boolean.boolean = "Value" THEN Ok(boolean.value)
    ELSE LET v == evaluate_expression(ExprVariable(boolean.variable), context)
         IN  IF v.ok THEN Ok(v.value = 1) ELSE Err

\* impl From<bool> for Exposure
ExposureFrom(value) == IF value THEN ExposureAdd ELSE ExposureCutOut

\* MacroContent nodes
MacroCircle(exposure, diameter, center, angle) ==
    [content |-> "Circle", exposure |-> exposure, diameter |-> diameter,
     center |-> center, angle |-> angle]
MacroVectorLine(exposure, width, start, end, angle) ==
    [content |-> "VectorLine", exposure |-> exposure, width |-> width, start |-> start,
     end |-> end, angle |-> angle]
MacroCenterLine(exposure, dimensions, center, angle) ==
    [content |-> "CenterLine", exposure |-> exposure, dimensions |-> dimensions,
     center |-> center, angle |-> angle]
MacroOutline(exposure, points, angle) ==
    [content |-> "Outline", exposure |-> exposure, points |-> points, angle |-> angle]
MacroPolygon(exposure, vertices, center, diameter, angle) ==
    [content |-> "Polygon", exposure |-> exposure, vertices |-> vertices,
     center |-> center, diameter |-> diameter, angle |-> angle]
MacroMoire == [content |-> "Moire"]
MacroThermal == [content |-> "Thermal"]
MacroComment == [content |-> "Comment"]
VariableDefinition(number, expression) ==
    [content |-> "VariableDefinition", number |-> number, expression |-> expression]

\* a / b for b > 0, rounded towards zero
Quotient(a, b) == IF a >= 0 THEN a \div b ELSE 0 - ((0 - a) \div b)

\* Result<Option<GerberPrimitive>, ExpressionEvaluationError> of
\* process_content, with the macro context it leaves
Processed(result, context) == [result |-> result, context |-> context]

\* new_polygon with an exposure that may fail to evaluate
PolygonOrErr(center, vertices, exposure) ==
    IF exposure.ok
    THEN Ok(Some(new_polygon(center, vertices, ExposureFrom(exposure.value))))
    ELSE Err

\* MacroContent::Circle
ProcessCircle(circle, context) ==
    LET diameter == macro_decimal_to_f64(circle.diameter, context)
        center == macro_decimal_pair_to_f64(circle.center, context)
        angle == IF IsSome(circle.angle)
                 THEN macro_decimal_to_f64(Unwrap(circle.angle), context) ELSE Ok(0)
        exposure == macro_boolean_to_bool(circle.exposure, context)
    IN  IF ~diameter.ok \/ ~center.ok \/ ~angle.ok \/ ~exposure.ok THEN Err
        ELSE Ok(Some(CircleGerberPrimitive(
                         Rotated(PX(center.value), PY(center.value),
                                 DegreesToAngle(angle.value)),
                         diameter.value, ExposureFrom(exposure.value))))

\* MacroContent::VectorLine: the corners of the rectangle about the segment
VectorLineCorners(rotated_start, rotated_end, hw_perp_x, hw_perp_y) ==
    << Point(PX(rotated_start) - hw_perp_x, PY(rotated_start) - hw_perp_y),
       Point(PX(rotated_start) + hw_perp_x, PY(rotated_start) + hw_perp_y),
       Point(PX(rotated_end) + hw_perp_x, PY(rotated_end) + hw_perp_y),
       Point(PX(rotated_end) - hw_perp_x, PY(rotated_end) - hw_perp_y) >>

\* MacroContent::VectorLine: the polygon for a rotated segment, or nothing
\* for a segment of length 0
VectorLinePolygon(rotated_start, rotated_end, half_width, exposure) ==
    LET dx == PX(rotated_end) - PX(rotated_start)
        dy == PY(rotated_end) - PY(rotated_start)
        length == Sqrt(dx * dx + dy * dy)
    IN  IF length = 0 THEN Ok(None)
        ELSE LET corners == VectorLineCorners(rotated_start, rotated_end,
                                              Quotient((0 - dy) * half_width, length),
                                              Quotient(dx * half_width, length))
                 center == Point(Half(PX(rotated_start) + PX(rotated_end)),
                                 Half(PY(rotated_start) + PY(rotated_end)))
             IN  PolygonOrErr(center,
                              [k \in 1..4 |-> Point(PX(corners[k]) - PX(center),
                                                    PY(corners[k]) - PY(center))],
                              exposure)

\* MacroContent::VectorLine: the rectangle about the rotated segment
ProcessVectorLine(vector_line, context) ==
    LET start == macro_decimal_pair_to_f64(vector_line.start, context)
        end == macro_decimal_pair_to_f64(vector_line.end, context)
        width == macro_decimal_to_f64(vector_line.width, context)
        angle == macro_decimal_to_f64(vector_line.angle, context)
    IN  IF ~start.ok \/ ~end.ok \/ ~width.ok \/ ~angle.ok THEN Err
        ELSE VectorLinePolygon(Rotated(PX(start.value), PY(start.value),
                                       DegreesToAngle(angle.value)),
                               Rotated(PX(end.value), PY(end.value),
                                       DegreesToAngle(angle.value)),
                               Half(width.value),
                               macro_boolean_to_bool(vector_line.exposure, context))

\* MacroContent::CenterLine: the rotated rectangle, about the unrotated centre
ProcessCenterLine(center_line, context) ==
    LET center == macro_decimal_pair_to_f64(center_line.center, context)
        dimensions == macro_decimal_pair_to_f64(center_line.dimensions, context)
        angle == macro_decimal_to_f64(center_line.angle, context)
    IN  IF ~center.ok \/ ~dimensions.ok \/ ~angle.ok THEN Err
        ELSE LET half_length == Half(PX(dimensions.value))
                 half_width == Half(PY(dimensions.value))
                 unrotated_vertices ==
                     << Point(half_length, half_width), Point(0 - half_length, half_width),
                        Point(0 - half_length, 0 - half_width),
                        Point(half_length, 0 - half_width) >>
             IN  PolygonOrErr(center.value,
                              [k \in 1..4 |-> Rotated(PX(unrotated_vertices[k]),
                                                      PY(unrotated_vertices[k]),
                                                      DegreesToAngle(angle.value))],
                              macro_boolean_to_bool(center_line.exposure, context))

\* the points of an outline that evaluate (filter_map ... .ok())
RECURSIVE EvaluatedPoints(_, _)
EvaluatedPoints(points, context) ==
    IF points = << >> THEN << >>
    ELSE LET point == macro_decimal_pair_to_f64(Head(points), context)
         IN  (IF point.ok THEN << point.value >> ELSE << >>)
                 \o EvaluatedPoints(Tail(points), context)

\* MacroContent::Outline
ProcessOutline(outline, context) ==
    IF Len(outline.points) < 3 THEN Ok(None)
    ELSE LET vertices == EvaluatedPoints(outline.points, context)
             angle == macro_decimal_to_f64(outline.angle, context)
         IN  IF ~angle.ok THEN Err
             ELSE PolygonOrErr(Point(0, 0),
                               IF angle.value # 0
                               THEN [k \in 1..Len(vertices) |->
                                        Rotated(PX(vertices[k]), PY(vertices[k]),
                                                DegreesToAngle(angle.value))]
                               ELSE vertices,
                               macro_boolean_to_bool(outline.exposure, context))

\* MacroContent::Polygon
ProcessPolygon(polygon, context) ==
    LET center == macro_decimal_pair_to_f64(polygon.center, context)
        vertices_count == macro_integer_to_u32(polygon.vertices, context)
        diameter == macro_decimal_to_f64(polygon.diameter, context)
        angle == macro_decimal_to_f64(polygon.angle, context)
    IN  IF ~center.ok \/ ~vertices_count.ok \/ ~diameter.ok \/ ~angle.ok THEN Err
        ELSE LET regular == Polygon(diameter.value, vertices_count.value, Some(angle.value))
             IN  PolygonOrErr(Rotated(PX(center.value), PY(center.value),
                                      DegreesToAngle(angle.value)),
                              [k \in 1..vertices_count.value |-> PolygonVertex(regular, k - 1)],
                              macro_boolean_to_bool(polygon.exposure, context))

\* process_content: one macro content node against the macro context
process_content(content, context) ==
    CASE content.content = "Circle" -> Processed(ProcessCircle(content, context), context)
      [] content.content = "VectorLine" ->
            Processed(ProcessVectorLine(content, context), context)
      [] content.content = "CenterLine" ->
            Processed(ProcessCenterLine(content, context), context)
      [] content.content = "Outline" -> Processed(ProcessOutline(content, context), context)
      [] content.content = "Polygon" -> Processed(ProcessPolygon(content, context), context)
      [] content.content \in {"Moire", "Thermal", "Comment"} -> Processed(Ok(None), context)
      [] content.content = "VariableDefinition" ->
            LET value == evaluate_expression(content.expression, context)
            IN  Processed(Ok(None),
                          IF value.ok THEN MacroContextPut(context, content.number, value.value)
                          ELSE context)

\* MacroContext::get (the streams copy variables that have a value)
MacroContextGet(context, variable) == Unwrap(context[variable])

\* a context in which every argument is evaluated against an empty context
RECURSIVE SeededContextAllAtOnce(_, _)
SeededContextAllAtOnce(args, n) ==
    IF n = 0 THEN MacroContextDefault
    ELSE LET value == macro_decimal_to_f64(args[n], MacroContextDefault)
         IN  IF value.ok
             THEN MacroContextPut(SeededContextAllAtOnce(args, n - 1), n, value.value)
             ELSE SeededContextAllAtOnce(args, n - 1)

\* the macro context after the first n instantiation arguments
RECURSIVE SeededContext(_, _)
SeededContext(args, n) ==
    IF n = 0 THEN MacroContextDefault
    ELSE LET context == SeededContext(args, n - 1)
             arg == args[n]
         IN  CASE arg.decimal = "Value" -> MacroContextPut(context, n, arg.value)
               [] arg.decimal = "Variable" ->
                     MacroContextPut(context, n, MacroContextGet(context, arg.variable))
               [] arg.decimal = "Expression" ->
                     LET value == evaluate_expression(arg.expression, context)
                     IN  IF value.ok THEN MacroContextPut(context, n, value.value)
                         ELSE context

\* the macro context before content node k (1-based)
RECURSIVE ContextBefore(_, _, _)
ContextBefore(content, k, initial) ==
    IF k = 1 THEN initial
    ELSE process_content(content[k - 1], ContextBefore(content, k - 1, initial)).context

\* an expansion in which a node contributes only if no node up to it failed
RECURSIVE PrimitiveDefsUntilError(_, _, _)
PrimitiveDefsUntilError(content, n, initial) ==
    IF n = 0 THEN << >>
    ELSE LET result == process_content(content[n], ContextBefore(content, n, initial)).result
             failed == \E k \in 1..n :
                          ~process_content(content[k],
                                           ContextBefore(content, k, initial)).result.ok
         IN  PrimitiveDefsUntilError(content, n - 1, initial)
                 \o (IF ~failed /\ IsSome(result.value) THEN << Unwrap(result.value) >>
                     ELSE << >>)

\* primitive_defs after the first n content nodes
RECURSIVE PrimitiveDefs(_, _, _)
PrimitiveDefs(content, n, initial) ==
    IF n = 0 THEN << >>
    ELSE LET result == process_content(content[n], ContextBefore(content, n, initial)).result
         IN  PrimitiveDefs(content, n - 1, initial)
                 \o (IF result.ok /\ IsSome(result.value) THEN << Unwrap(result.value) >>
                     ELSE << >>)

\* the expansion of a macro with the arguments of an aperture definition
ExpandMacro(macro_def, args) ==
    PrimitiveDefs(macro_def.content, Len(macro_def.content),
                  IF IsSome(args) THEN SeededContext(Unwrap(args), Len(Unwrap(args)))
                  ELSE MacroContextDefault)

\* ExtendedCode::ApertureMacro, Aperture::Macro(name, args)
ApertureMacro(name, content) == [op |-> "ApertureMacro", name |-> name, content |-> content]
Macro(name, args) == [kind |-> "Macro", name |-> name, args |-> args]
\* LocalApertureKind::Standard(ApertureKind::Macro(primitive_defs))
MacroAperture(primitive_defs) ==
    [local |-> "Standard", aperture |-> [kind |-> "MacroPrimitives", primitives |-> primitive_defs]]

\* First pass: macro_definitions.get(name), the last definition of the name
\* anywhere in the stream
MacroDefinition(name) ==
    LET positions == { i \in 0..(NumCommands - 1) :
                          CmdAt(i).op = "ApertureMacro" /\ CmdAt(i).name = name }
    IN  IF positions = {} THEN None ELSE Some(CmdAt(SetMax(positions)))


\* --------------------------------------------- block discovery (second scan)

\* ApertureBlock::Open: push { code, start: index }
DiscoverOpen(stack, code, i) == Append(stack, [code |-> code, start |-> i])

\* ApertureBlock::Close with a discovery on the stack: the block's range is
\* { start: discovery.start + 1, end: index - 1 }
DiscoveredBlock(discovery, i) ==
    BlockAperture(discovery.code, discovery.start + 1, i - 1)

\* One iteration of `for (index, command) in commands.iter().enumerate()`.
DiscoverStep ==
    /\ pc = "discover"
    /\ scan < NumCommands
    /\ LET cmd == CmdAt(scan) IN
        CASE cmd.op = "ABOpen" ->
                /\ discovery_stack' = DiscoverOpen(discovery_stack, cmd.code, scan)
                /\ apertures' = apertures
          [] cmd.op = "ABClose" ->
                IF discovery_stack # << >>
                THEN LET discovery == discovery_stack[Len(discovery_stack)] IN
                     /\ apertures' = [apertures EXCEPT ![discovery.code] =
                                         Some(DiscoveredBlock(discovery, scan))]
                     /\ discovery_stack' = SubSeq(discovery_stack, 1, Len(discovery_stack) - 1)
                ELSE \* error!("Aperture block close without matching open")
                     UNCHANGED << discovery_stack, apertures >>
          [] cmd.op = "ApertureDefinition" ->
                /\ apertures' =
                      IF cmd.aperture.kind = "Macro"
                      THEN IF IsSome(MacroDefinition(cmd.aperture.name))
                           THEN [apertures EXCEPT ![cmd.code] =
                                    Some(MacroAperture(
                                        ExpandMacro(Unwrap(MacroDefinition(cmd.aperture.name)),
                                                    cmd.aperture.args)))]
                           ELSE \* error!("Aperture definition references unknown macro")
                                apertures
                      ELSE [apertures EXCEPT ![cmd.code] =
                               Some(StandardAperture(cmd.aperture))]
                /\ discovery_stack' = discovery_stack
          [] OTHER -> UNCHANGED << discovery_stack, apertures >>
    /\ scan' = scan + 1
    /\ UNCHANGED << commands, pc, index, replay_checked, current_pos, current_aperture,
                    current_aperture_width, interpolation_mode, quadrant_mode,
                    aperture_selection_errors, current_region_vertices, in_region,
                    step_repeat_state, step_repeat_offset, replay_stack,
                    aperture_block_offset, layer_primitives, bounding_box >>
    /\ UNCHANGED callVars

\* The scan is over: pass 3 starts with the state of layer.rs:673-706.
DiscoverDone ==
    /\ pc = "discover"
    /\ scan = NumCommands
    /\ pc' = "execute"
    /\ UNCHANGED << commands, scan, discovery_stack, apertures, index, replay_checked,
                    current_pos, current_aperture, current_aperture_width,
                    interpolation_mode, quadrant_mode, aperture_selection_errors,
                    current_region_vertices, in_region, step_repeat_state,
                    step_repeat_offset, replay_stack, aperture_block_offset,
                    layer_primitives, bounding_box >>
    /\ UNCHANGED callVars

\* ------------------------------------------------------ pass 3: the handlers

\* a position update that ignores the running offset
UpdatePositionWithoutOffset(pos, coords, offset) ==
    Point(IF IsSome(coords.x) THEN Unwrap(coords.x) ELSE PX(pos),
          IF IsSome(coords.y) THEN Unwrap(coords.y) ELSE PY(pos))

\* GerberLayer::update_position: a given coordinate plus the offset, an
\* omitted one keeps the current value
update_position(pos, coords, offset) ==
    Point(IF IsSome(coords.x) THEN Unwrap(coords.x) + PX(offset) ELSE PX(pos),
          IF IsSome(coords.y) THEN Unwrap(coords.y) + PY(offset) ELSE PY(pos))

\* step_repeat_offset + aperture_block_offset
RunningOffset == AddVec(step_repeat_offset, aperture_block_offset)

IsStandardCircle(local_aperture) ==
    local_aperture.local = "Standard" /\ local_aperture.aperture.kind = "Circle"

\* a flash that ignores the hole of a circle aperture
FlashSolidCircle(aperture, pos) ==
    CASE aperture.kind = "Circle" ->
            << CircleGerberPrimitive(pos, aperture.diameter, ExposureAdd) >>
      [] OTHER -> << >>

\* a template primitive flashed where the template was built
Untranslated(primitive, pos) == primitive

\* a template primitive of a macro moved by the flash position
Translated(primitive, pos) ==
    CASE primitive.prim \in {"Polygon", "Circle", "Arc"} ->
            [primitive EXCEPT !.center = AddVec(primitive.center, pos)]
      [] primitive.prim = "Rectangle" ->
            [primitive EXCEPT !.origin = AddVec(primitive.origin, pos)]
      [] primitive.prim = "Line" ->
            [primitive EXCEPT !.start = AddVec(primitive.start, pos),
                              !.end = AddVec(primitive.end, pos)]

\* a flash that anchors a rectangle at its corner instead of centring it
FlashAnchoredAtCorner(aperture, pos) ==
    CASE aperture.kind = "Rectangle" ->
            << RectangleGerberPrimitive(pos, aperture.x, aperture.y, ExposureAdd) >>
      [] aperture.kind = "Obround" ->
            << RectangleGerberPrimitive(pos, aperture.x, aperture.y, ExposureAdd),
               CircleGerberPrimitive(pos, Min2(aperture.x, aperture.y), ExposureAdd),
               CircleGerberPrimitive(pos, Min2(aperture.x, aperture.y), ExposureAdd) >>
      [] OTHER -> << >>

\* The primitives of a flash of a standard aperture at position pos
\* (Operation::Flash, LocalApertureKind::Standard)
FlashStandard(aperture, pos) ==
    CASE aperture.kind = "Circle" ->
            IF IsSome(aperture.hole_diameter)
            THEN LET outer_radius == Half(aperture.diameter)
                     inner_radius == Half(Unwrap(aperture.hole_diameter))
                 IN  << ArcGerberPrimitive(pos, Half(outer_radius + inner_radius),
                                           outer_radius - inner_radius, 0, FullTurn,
                                           ExposureAdd) >>
            ELSE << CircleGerberPrimitive(pos, aperture.diameter, ExposureAdd) >>
      [] aperture.kind = "Rectangle" ->
            << RectangleGerberPrimitive(
                   Point(PX(pos) - Half(aperture.x), PY(pos) - Half(aperture.y)),
                   aperture.x, aperture.y, ExposureAdd) >>
      [] aperture.kind = "Polygon" ->
            << new_polygon(pos,
                           [k \in 1..aperture.vertices |-> PolygonVertex(aperture, k - 1)],
                           ExposureAdd) >>
      [] aperture.kind = "MacroPrimitives" ->
            [k \in 1..Len(aperture.primitives) |-> Translated(aperture.primitives[k], pos)]
      [] aperture.kind = "Obround" ->
            LET horizontal == aperture.x > aperture.y
                rect_width == IF horizontal THEN aperture.x - aperture.y ELSE aperture.x
                rect_height == IF horizontal THEN aperture.y ELSE aperture.y - aperture.x
                circle_offset == IF horizontal THEN Point(Half(rect_width), 0)
                                 ELSE Point(0, Half(rect_height))
                circle_radius == Half(Min2(aperture.x, aperture.y))
            IN  << RectangleGerberPrimitive(
                       Point(PX(pos) - Half(rect_width), PY(pos) - Half(rect_height)),
                       rect_width, rect_height, ExposureAdd),
                   CircleGerberPrimitive(AddVec(pos, circle_offset), circle_radius * 2,
                                         ExposureAdd),
                   CircleGerberPrimitive(
                       AddVec(pos, Point(0 - PX(circle_offset), 0 - PY(circle_offset))),
                       circle_radius * 2, ExposureAdd) >>

\* a sweep that is the plain difference of the two angles
SweepAngleUnnormalised(mode, start_angle, end_angle) == end_angle - start_angle

\* let mut sweep_angle = match interpolation_mode { ... }
SweepAngle(mode, start_angle, end_angle) ==
    CASE mode = "ClockwiseCircular" ->
            IF end_angle > start_angle THEN end_angle - start_angle - FullTurn
            ELSE end_angle - start_angle
      [] mode = "CounterclockwiseCircular" ->
            IF end_angle < start_angle THEN end_angle - start_angle + FullTurn
            ELSE end_angle - start_angle
      [] OTHER -> 0

\* a quadrant adjustment that leaves every sweep as computed
QuadrantUnclamped(quadrant, sweep_angle) == sweep_angle

\* if let QuadrantMode::Single = quadrant_mode { ... }
QuadrantClamp(quadrant, sweep_angle) ==
    IF quadrant = "Single" /\ Abs(sweep_angle) > QuarterTurn
    THEN IF sweep_angle > 0 THEN QuarterTurn ELSE 0 - QuarterTurn
    ELSE sweep_angle

\* the arc of a circular interpolation from pos to end about pos + (i, j)
InterpolatedArc(mode, quadrant, pos, end, offset, width) ==
    LET offset_i == IF IsSome(offset.x) THEN Unwrap(offset.x) ELSE 0
        offset_j == IF IsSome(offset.y) THEN Unwrap(offset.y) ELSE 0
        center == Point(PX(pos) + offset_i, PY(pos) + offset_j)
        radius == Sqrt(offset_i * offset_i + offset_j * offset_j)
        start_angle == Atan2(PY(pos) - PY(center), PX(pos) - PX(center))
        end_angle == Atan2(PY(end) - PY(center), PX(end) - PX(center))
        sweep_angle == QuadrantClamp(quadrant, SweepAngle(mode, start_angle, end_angle))
    IN  ArcGerberPrimitive(center, radius, width, start_angle, sweep_angle, ExposureAdd)

\* an arc without the circles at its ends
ArcWithoutFillers(arc, width) == << arc >>

\* the primitives a circular interpolation pushes: the arc alone when it is a
\* full circle, else a circle at the first sampled point, the arc, and a circle
\* at the last sampled point
CircularPrimitives(arc, width) ==
    IF is_full_circle(arc) THEN << arc >>
    ELSE LET points == generate_points(arc)
         IN  << CircleGerberPrimitive(AddVec(points[1], arc.center), width, ExposureAdd),
                arc,
                CircleGerberPrimitive(AddVec(points[Len(points)], arc.center), width,
                                      ExposureAdd) >>

\* The primitives of Operation::Interpolate outside a region with an aperture
\* selected
InterpolatePrimitives(local_aperture, mode, quadrant, pos, end, offset, width) ==
    IF mode = "Linear"
    THEN IF IsStandardCircle(local_aperture)
         THEN << LineGerberPrimitive(pos, end, local_aperture.aperture.diameter,
                                     ExposureAdd) >>
         ELSE << >>      \* warn!("Unsupported aperture for linear interpolation")
    ELSE IF IsSome(offset)
         THEN CircularPrimitives(
                  InterpolatedArc(mode, quadrant, pos, end, Unwrap(offset), width), width)
         ELSE << >>

\* a region polygon about the origin instead of the midpoint of its box
RegionPolygonAboutOrigin(vertices) ==
    new_polygon(Point(0, 0), vertices, ExposureAdd)

\* G37 with at least 3 vertices: the polygon about the midpoint of the
\* vertices' bounding box
RegionPolygon(vertices) ==
    LET box == from_points(vertices)
        center == Point(Half(PX(box.min) + PX(box.max)), Half(PY(box.min) + PY(box.max)))
    IN  new_polygon(center,
                    [k \in 1..Len(vertices) |->
                        Point(PX(vertices[k]) - PX(center), PY(vertices[k]) - PY(center))],
                    ExposureAdd)

\* a frame whose offset is read after the flash has set it to the flash position
ReplayFrameOffsetAfterFlash(block, pos, idx, offset, imode, qmode) ==
    [block |-> block, initial_position |-> pos, initial_index |-> idx,
     initial_offset |-> pos, initial_interpolation_mode |-> imode,
     initial_quadrant_mode |-> qmode]

\* ApertureBlockReplayState
ReplayFrame(block, pos, idx, offset, imode, qmode) ==
    [block |-> block, initial_position |-> pos, initial_index |-> idx,
     initial_offset |-> offset, initial_interpolation_mode |-> imode,
     initial_quadrant_mode |-> qmode]

\* StepRepeatState
StepRepeatState(pos, start, rx, ry, dx, dy, xi, yi) ==
    [initial_position |-> pos, start_index |-> start, repeat_x |-> rx, repeat_y |-> ry,
     distance_x |-> dx, distance_y |-> dy, x_index |-> xi, y_index |-> yi]

\* state.y_index += 1; on overflow reset it and state.x_index += 1
AdvanceStepRepeat(state) ==
    IF state.y_index + 1 >= state.repeat_y
    THEN [state EXCEPT !.y_index = 0, !.x_index = state.x_index + 1]
    ELSE [state EXCEPT !.y_index = state.y_index + 1]

\* a completion test that runs one more column of the grid
StepRepeatCompleteAfterExtraColumn(state) ==
    /\ state.y_index + 1 >= state.repeat_y
    /\ state.x_index + 1 > state.repeat_x

\* `complete`, for the state before the close
StepRepeatComplete(state) ==
    /\ state.y_index + 1 >= state.repeat_y
    /\ state.x_index + 1 >= state.repeat_x


\* primitives inserted at the front of the list
PushFront(primitives, emitted) == emitted \o primitives

\* layer_primitives.push(..), once per primitive of `emitted`, in order
Push(primitives, emitted) == primitives \o emitted

\* ------------------------------------------------------- pass 3: the loop

ReplayTop == replay_stack[Len(replay_stack)]

\* if let Some(state) = stack.last_mut() { if index > state.block.range.end
ReplayEnded == replay_stack # << >> /\ index > ReplayTop.block.end

\* The loop head is behind: `commands.get(index)` is next.
AtFetch == pc = "execute" /\ (replay_checked \/ ~ReplayEnded)

\* The fetch yields a command of kind op, which the match dispatches.
Dispatching(op) == AtFetch /\ index < NumCommands /\ CmdAt(index).op = op

\* a replay completion that keeps the aperture the block body selected
ReplayCompleteKeepingAperture ==
    /\ pc = "execute"
    /\ ~replay_checked
    /\ ReplayEnded
    /\ current_pos' = ReplayTop.initial_position
    /\ interpolation_mode' = ReplayTop.initial_interpolation_mode
    /\ quadrant_mode' = ReplayTop.initial_quadrant_mode
    /\ aperture_block_offset' = ReplayTop.initial_offset
    /\ current_aperture' = current_aperture
    /\ index' = ReplayTop.initial_index + 1
    /\ replay_stack' = SubSeq(replay_stack, 1, Len(replay_stack) - 1)
    /\ replay_checked' = TRUE
    /\ UNCHANGED << commands, pc, discoveryVars, current_aperture_width,
                    aperture_selection_errors, regionVars, stepRepeatVars,
                    layer_primitives, bounding_box >>
    /\ UNCHANGED callVars

\* Loop head: the replay of the block on top of the stack is complete.  One
\* frame at most is popped per iteration; the fetch follows without a re-test.
ReplayComplete ==
    /\ pc = "execute"
    /\ ~replay_checked
    /\ ReplayEnded
    /\ current_pos' = ReplayTop.initial_position
    /\ interpolation_mode' = ReplayTop.initial_interpolation_mode
    /\ quadrant_mode' = ReplayTop.initial_quadrant_mode
    /\ aperture_block_offset' = ReplayTop.initial_offset
    /\ current_aperture' = apertures[ReplayTop.block.code]
    /\ index' = ReplayTop.initial_index + 1
    /\ replay_stack' = SubSeq(replay_stack, 1, Len(replay_stack) - 1)
    /\ replay_checked' = TRUE
    /\ UNCHANGED << commands, pc, discoveryVars, current_aperture_width,
                    aperture_selection_errors, regionVars, stepRepeatVars,
                    layer_primitives, bounding_box >>
    /\ UNCHANGED callVars

\* let Some(cmd) = commands.get(index) else { break }; then GerberLayer::new
\* folds the bounding box and returns the layer.
Finish ==
    /\ AtFetch
    /\ index >= NumCommands
    /\ pc' = "done"
    /\ bounding_box' = Some(calculate_bounding_box(layer_primitives))
    /\ UNCHANGED << commands, discoveryVars, index, replay_checked, current_pos,
                    current_aperture, current_aperture_width, modeVars,
                    aperture_selection_errors, regionVars, stepRepeatVars, replay_stack,
                    aperture_block_offset, layer_primitives >>
    /\ UNCHANGED callVars

\* ApertureBlock::Open: jump past the block's close marker; unwrap() panics
\* when the code has no aperture
ExecApertureBlockOpen ==
    /\ Dispatching("ABOpen")
    /\ LET found == apertures[CmdAt(index).code] IN
        IF ~IsSome(found)
        THEN /\ pc' = "panicked"
             /\ index' = index
        ELSE /\ pc' = pc
             /\ index' = IF Unwrap(found).local = "Block"
                         THEN Unwrap(found).end + 2
                         ELSE index + 1   \* error!("AB (open) not using an aperture block definition")
    /\ replay_checked' = FALSE
    /\ UNCHANGED << commands, discoveryVars, current_pos, current_aperture,
                    current_aperture_width, modeVars, aperture_selection_errors,
                    regionVars, stepRepeatVars, replay_stack, aperture_block_offset,
                    layer_primitives, bounding_box >>
    /\ UNCHANGED callVars

\* ApertureBlock::Close: error!("AB (close) encountered during 3rd pass")
ExecApertureBlockClose ==
    /\ Dispatching("ABClose")
    /\ index' = index + 1
    /\ replay_checked' = FALSE
    /\ UNCHANGED << commands, pc, discoveryVars, current_pos, current_aperture,
                    current_aperture_width, modeVars, aperture_selection_errors,
                    regionVars, stepRepeatVars, replay_stack, aperture_block_offset,
                    layer_primitives, bounding_box >>
    /\ UNCHANGED callVars

\* a step-and-repeat open that replaces the repeat that is active
ExecStepRepeatOpenRestarting ==
    /\ Dispatching("SROpen")
    /\ LET cmd == CmdAt(index) IN
        step_repeat_state' =
            IF replay_stack # << >> THEN step_repeat_state
            ELSE Some(StepRepeatState(current_pos, index + 1, cmd.repeat_x, cmd.repeat_y,
                                      cmd.distance_x, cmd.distance_y, 0, 0))
    /\ index' = index + 1
    /\ replay_checked' = FALSE
    /\ UNCHANGED << commands, pc, discoveryVars, current_pos, current_aperture,
                    current_aperture_width, modeVars, aperture_selection_errors,
                    regionVars, step_repeat_offset, replay_stack, aperture_block_offset,
                    layer_primitives, bounding_box >>
    /\ UNCHANGED callVars

\* StepAndRepeat::Open
ExecStepRepeatOpen ==
    /\ Dispatching("SROpen")
    /\ LET cmd == CmdAt(index) IN
        step_repeat_state' =
            IF replay_stack # << >> THEN step_repeat_state     \* SR (open) during AB replay
            ELSE IF IsSome(step_repeat_state) THEN step_repeat_state
            ELSE Some(StepRepeatState(current_pos, index + 1, cmd.repeat_x, cmd.repeat_y,
                                      cmd.distance_x, cmd.distance_y, 0, 0))
    /\ index' = index + 1
    /\ replay_checked' = FALSE
    /\ UNCHANGED << commands, pc, discoveryVars, current_pos, current_aperture,
                    current_aperture_width, modeVars, aperture_selection_errors,
                    regionVars, step_repeat_offset, replay_stack, aperture_block_offset,
                    layer_primitives, bounding_box >>
    /\ UNCHANGED callVars

\* StepAndRepeat::Close
ExecStepRepeatClose ==
    /\ Dispatching("SRClose")
    /\ IF replay_stack # << >> \/ ~IsSome(step_repeat_state)
       THEN /\ index' = index + 1
            /\ UNCHANGED << current_pos, stepRepeatVars >>
       ELSE LET state == Unwrap(step_repeat_state)
                next == AdvanceStepRepeat(state)
            IN  /\ current_pos' = state.initial_position
                /\ IF StepRepeatComplete(state)
                   THEN /\ step_repeat_offset' = Point(0, 0)
                        /\ step_repeat_state' = None
                        /\ index' = index + 1
                   ELSE /\ step_repeat_offset' = Point(next.distance_x * next.x_index,
                                                       next.distance_y * next.y_index)
                        /\ step_repeat_state' = Some(next)
                        /\ index' = next.start_index
    /\ replay_checked' = FALSE
    /\ UNCHANGED << commands, pc, discoveryVars, current_aperture, current_aperture_width,
                    modeVars, aperture_selection_errors, regionVars, replay_stack,
                    aperture_block_offset, layer_primitives, bounding_box >>
    /\ UNCHANGED callVars

\* GCode::InterpolationMode
ExecInterpolationMode ==
    /\ Dispatching("InterpolationMode")
    /\ interpolation_mode' = CmdAt(index).mode
    /\ index' = index + 1
    /\ replay_checked' = FALSE
    /\ UNCHANGED << commands, pc, discoveryVars, current_pos, current_aperture,
                    current_aperture_width, quadrant_mode, aperture_selection_errors,
                    regionVars, stepRepeatVars, replay_stack, aperture_block_offset,
                    layer_primitives, bounding_box >>
    /\ UNCHANGED callVars

\* GCode::QuadrantMode
ExecQuadrantMode ==
    /\ Dispatching("QuadrantMode")
    /\ quadrant_mode' = CmdAt(index).mode
    /\ index' = index + 1
    /\ replay_checked' = FALSE
    /\ UNCHANGED << commands, pc, discoveryVars, current_pos, current_aperture,
                    current_aperture_width, interpolation_mode, aperture_selection_errors,
                    regionVars, stepRepeatVars, replay_stack, aperture_block_offset,
                    layer_primitives, bounding_box >>
    /\ UNCHANGED callVars

\* GCode::RegionMode
ExecRegionMode ==
    /\ Dispatching("RegionMode")
    /\ IF CmdAt(index).enabled
       THEN /\ in_region' = TRUE
            /\ current_region_vertices' = << >>
            /\ layer_primitives' = layer_primitives
       ELSE IF in_region /\ Len(current_region_vertices) >= 3
            THEN /\ layer_primitives' =
                        Push(layer_primitives, << RegionPolygon(current_region_vertices) >>)
                 /\ in_region' = FALSE
                 /\ current_region_vertices' = current_region_vertices
            ELSE UNCHANGED << in_region, current_region_vertices, layer_primitives >>
    /\ index' = index + 1
    /\ replay_checked' = FALSE
    /\ UNCHANGED << commands, pc, discoveryVars, current_pos, current_aperture,
                    current_aperture_width, modeVars, aperture_selection_errors,
                    stepRepeatVars, replay_stack, aperture_block_offset, bounding_box >>
    /\ UNCHANGED callVars

\* a selection that keeps the previous aperture when the code is undefined
SelectedOrPrevious(code) == IF IsSome(apertures[code]) THEN apertures[code] ELSE current_aperture

\* a selection that finds only a code defined earlier in the stream
SelectedIfDefinedEarlier(code) ==
    IF \E k \in 1..index :
           commands[k].op = "ApertureDefinition" /\ commands[k].code = code
    THEN apertures[code] ELSE None

\* the aperture a D-code selects: apertures.get(&code)
SelectedAperture(code) == apertures[code]

\* DCode::SelectAperture
ExecSelectAperture ==
    /\ Dispatching("SelectAperture")
    /\ LET code == CmdAt(index).code
           found == SelectedAperture(code)
       IN  /\ current_aperture' = found
           /\ current_aperture_width' =
                 IF IsSome(found) /\ IsStandardCircle(Unwrap(found))
                 THEN Unwrap(found).aperture.diameter
                 ELSE current_aperture_width
           /\ aperture_selection_errors' =
                 IF IsSome(found) THEN aperture_selection_errors
                 ELSE aperture_selection_errors \cup {code}
    /\ index' = index + 1
    /\ replay_checked' = FALSE
    /\ UNCHANGED << commands, pc, discoveryVars, current_pos, modeVars, regionVars,
                    stepRepeatVars, replay_stack, aperture_block_offset,
                    layer_primitives, bounding_box >>
    /\ UNCHANGED callVars

\* a move that also starts the new sub-path at its target
ExecMoveStartingSegment ==
    /\ Dispatching("Move")
    /\ current_pos' = update_position(current_pos, CmdAt(index).coords, RunningOffset)
    /\ current_region_vertices' =
          IF in_region
          THEN Append(IF current_region_vertices # << >>
                      THEN Append(current_region_vertices, current_region_vertices[1])
                      ELSE current_region_vertices,
                      update_position(current_pos, CmdAt(index).coords, RunningOffset))
          ELSE current_region_vertices
    /\ index' = index + 1
    /\ replay_checked' = FALSE
    /\ UNCHANGED << commands, pc, discoveryVars, current_aperture, current_aperture_width,
                    modeVars, aperture_selection_errors, in_region, stepRepeatVars,
                    replay_stack, aperture_block_offset, layer_primitives, bounding_box >>
    /\ UNCHANGED callVars

\* Operation::Move
ExecMove ==
    /\ Dispatching("Move")
    /\ current_pos' = update_position(current_pos, CmdAt(index).coords, RunningOffset)
    /\ current_region_vertices' =
          IF in_region /\ current_region_vertices # << >>
          THEN Append(current_region_vertices, current_region_vertices[1])
          ELSE current_region_vertices
    /\ index' = index + 1
    /\ replay_checked' = FALSE
    /\ UNCHANGED << commands, pc, discoveryVars, current_aperture, current_aperture_width,
                    modeVars, aperture_selection_errors, in_region, stepRepeatVars,
                    replay_stack, aperture_block_offset, layer_primitives, bounding_box >>
    /\ UNCHANGED callVars

\* an interpolation that draws whether or not a region is open
ExecInterpolateIgnoringRegion ==
    /\ Dispatching("Interpolate")
    /\ LET cmd == CmdAt(index)
           end == update_position(current_pos, cmd.coords, RunningOffset)
       IN  /\ current_region_vertices' =
                 IF in_region THEN Append(current_region_vertices, end)
                 ELSE current_region_vertices
           /\ layer_primitives' =
                 IF IsSome(current_aperture)
                 THEN Push(layer_primitives,
                           InterpolatePrimitives(Unwrap(current_aperture),
                                                 interpolation_mode, quadrant_mode,
                                                 current_pos, end, cmd.offset,
                                                 current_aperture_width))
                 ELSE layer_primitives
           /\ current_pos' = end
    /\ index' = index + 1
    /\ replay_checked' = FALSE
    /\ UNCHANGED << commands, pc, discoveryVars, current_aperture, current_aperture_width,
                    modeVars, aperture_selection_errors, in_region, stepRepeatVars,
                    replay_stack, aperture_block_offset, bounding_box >>
    /\ UNCHANGED callVars

\* Operation::Interpolate
ExecInterpolate ==
    /\ Dispatching("Interpolate")
    /\ LET cmd == CmdAt(index)
           end == update_position(current_pos, cmd.coords, RunningOffset)
       IN  /\ current_region_vertices' =
                 IF in_region THEN Append(current_region_vertices, end)
                 ELSE current_region_vertices
           /\ layer_primitives' =
                 IF ~in_region /\ IsSome(current_aperture)
                 THEN Push(layer_primitives,
                           InterpolatePrimitives(Unwrap(current_aperture),
                                                 interpolation_mode, quadrant_mode,
                                                 current_pos, end, cmd.offset,
                                                 current_aperture_width))
                 ELSE layer_primitives
           /\ current_pos' = end
    /\ index' = index + 1
    /\ replay_checked' = FALSE
    /\ UNCHANGED << commands, pc, discoveryVars, current_aperture, current_aperture_width,
                    modeVars, aperture_selection_errors, in_region, stepRepeatVars,
                    replay_stack, aperture_block_offset, bounding_box >>
    /\ UNCHANGED callVars

\* Operation::Flash
ExecFlash ==
    /\ Dispatching("Flash")
    /\ LET pos == update_position(current_pos, CmdAt(index).coords, RunningOffset)
           block == IF IsSome(current_aperture) /\ Unwrap(current_aperture).local = "Block"
                    THEN current_aperture ELSE None
       IN  IF in_region
           THEN \* warn!("Flash operation found within region - ignoring")
                /\ index' = index + 1
                /\ UNCHANGED << current_pos, replay_stack, aperture_block_offset,
                                layer_primitives >>
           ELSE IF IsSome(block)
           THEN \* push the replay frame and jump to the block's first command
                /\ Len(replay_stack) < MaxDepth
                /\ current_pos' = pos
                /\ replay_stack' =
                      Append(replay_stack,
                             ReplayFrame(Unwrap(block), pos, index, aperture_block_offset,
                                         interpolation_mode, quadrant_mode))
                /\ aperture_block_offset' = pos
                /\ index' = Unwrap(block).start
                /\ layer_primitives' = layer_primitives
           ELSE /\ current_pos' = pos
                /\ layer_primitives' =
                      IF IsSome(current_aperture)
                      THEN Push(layer_primitives,
                                FlashStandard(Unwrap(current_aperture).aperture, pos))
                      ELSE layer_primitives
                /\ index' = index + 1
                /\ UNCHANGED << replay_stack, aperture_block_offset >>
    /\ replay_checked' = FALSE
    /\ UNCHANGED << commands, pc, discoveryVars, current_aperture, current_aperture_width,
                    modeVars, aperture_selection_errors, regionVars, stepRepeatVars,
                    bounding_box >>
    /\ UNCHANGED callVars

\* `_ => {}`: aperture definitions and every other command
ExecOther ==
    /\ AtFetch
    /\ index < NumCommands
    /\ CmdAt(index).op \in {"ApertureDefinition", "ApertureMacro", "Other"}
    /\ index' = index + 1
    /\ replay_checked' = FALSE
    /\ UNCHANGED << commands, pc, discoveryVars, current_pos, current_aperture,
                    current_aperture_width, modeVars, aperture_selection_errors,
                    regionVars, stepRepeatVars, replay_stack, aperture_block_offset,
                    layer_primitives, bounding_box >>
    /\ UNCHANGED callVars


\* ------------------------------------------------------- instruction streams

\* All streams that take, at each position, one of that position's commands.
RECURSIVE Streams(_)
Streams(slots) ==
    IF slots = << >> THEN { << >> }
    ELSE { << first >> \o rest : first \in Head(slots), rest \in Streams(Tail(slots)) }

NoCoordinates == Coordinates(None, None)
PlainCircle(d) == Circle(d, None)

\* Two aperture blocks one after the other, the second one's body selecting
\* and flashing an aperture (the first block, or the circle), with markers
\* that may be missing, a code that may be defined twice, and a block that
\* may flash itself.
SequentialBlockStreams ==
    Streams(<< { ApertureDefinition(10, PlainCircle(2)) },
               { ApertureBlockOpen(20) },
               { SelectAperture(10), SelectAperture(20),
                 SetInterpolationMode("ClockwiseCircular"), OtherCommand },
               { Flash(XY(2, 2)), Interpolate(XY(2, 0), None), Move(XY(0, 2)) },
               { ApertureBlockClose, OtherCommand },
               { ApertureBlockOpen(21), ApertureDefinition(20, PlainCircle(4)),
                 OtherCommand },
               { SelectAperture(20), SelectAperture(10) },
               { Flash(XY(4, 0)), Flash(Coordinates(Some(4), None)) },
               { ApertureBlockClose, OtherCommand, SetQuadrantMode("Multi") },
               { ApertureBlockClose, SelectAperture(21), SelectAperture(20) },
               { Flash(XY(6, 6)) },
               { Flash(NoCoordinates), OtherCommand } >>)

\* A block defined inside another block's body.
NestedBlockStreams ==
    Streams(<< { ApertureDefinition(10, PlainCircle(2)) },
               { ApertureBlockOpen(20) },
               { SelectAperture(10), OtherCommand },
               { ApertureBlockOpen(21), Flash(XY(2, 2)) },
               { SelectAperture(10), SelectAperture(30), Flash(XY(2, 0)) },
               { Flash(XY(0, 2)), ApertureBlockClose },
               { ApertureBlockClose },
               { ApertureBlockClose, Flash(XY(0, 4)), OtherCommand },
               { SelectAperture(20), SelectAperture(21) },
               { Flash(XY(4, 4)) },
               { SelectAperture(21), SelectAperture(20), OtherCommand },
               { Flash(XY(8, 8)) } >>)

BlockStreams == SequentialBlockStreams \cup NestedBlockStreams

\* A step-and-repeat about one operation, with an aperture that may be
\* undefined, flashes that omit coordinates, markers that may be missing and a
\* second step-and-repeat opened inside or after the first.
StepRepeatStreams ==
    Streams(<< { ApertureDefinition(10, PlainCircle(2)) },
               { ApertureDefinition(11, Rectangle(4, 2)) },
               { SelectAperture(10), SelectAperture(11), SelectAperture(30) },
               { Move(XY(2, 2)), OtherCommand },
               { StepAndRepeatOpen(rx, ry, 10, 20) : rx \in 1..MaxRepeat, ry \in 1..MaxRepeat }
                   \cup { OtherCommand },
               { Flash(XY(0, 0)), Flash(XY(2, 4)), Flash(Coordinates(Some(2), None)),
                 Flash(NoCoordinates), StepAndRepeatOpen(2, 1, 6, 6),
                 Interpolate(XY(4, 0), None) },
               { StepAndRepeatClose, OtherCommand, Flash(XY(6, 0)) },
               { StepAndRepeatClose, Flash(XY(6, 6)), OtherCommand },
               { StepAndRepeatOpen(1, 2, 2, 2), Flash(XY(4, 4)) },
               { Flash(XY(0, 2)), StepAndRepeatClose } >>)

\* I and J of a circular interpolation
CoordinateOffset(i, j) == [x |-> i, y |-> j]

ArcTargets == { XY(0, 0), XY(40, 0), XY(40, 40), XY(80, 0), NoCoordinates }
ArcOffsets ==
    { Some(CoordinateOffset(Some(i), Some(j))) : i \in {0 - 40, 0, 40}, j \in {0 - 40, 0, 40} }
        \cup { Some(CoordinateOffset(Some(40), None)), None }

\* One interpolation in any mode with any target and centre offset, followed
\* by a second one.
ArcStreams ==
    Streams(<< { ApertureDefinition(10, PlainCircle(2)) },
               { ApertureDefinition(11, Rectangle(4, 2)) },
               { SelectAperture(10), SelectAperture(11), OtherCommand },
               { SetQuadrantMode("Multi"), OtherCommand },
               { SetInterpolationMode("ClockwiseCircular"),
                 SetInterpolationMode("CounterclockwiseCircular"), OtherCommand },
               { Move(XY(0, 0)), Move(XY(40, 0)) },
               { Interpolate(target, offset) : target \in ArcTargets, offset \in ArcOffsets },
               { SetInterpolationMode("Linear"), OtherCommand },
               { Interpolate(XY(0, 80), Some(CoordinateOffset(Some(0), Some(40)))) } >>)

\* The outline of circular_plotting_tests::test_rounded_rectangle_outline
\* (corner radius 40): arcs and lines in alternation, in either direction.
OutlineArc(x, y, i, j) == Interpolate(XY(x, y), Some(CoordinateOffset(Some(i), Some(j))))
OutlineLine(x, y) == Interpolate(XY(x, y), None)
OutlineStreams ==
    { << OtherCommand, ApertureDefinition(10, PlainCircle(2)),
         SetInterpolationMode("Linear"), Move(XY(40, 120)), SelectAperture(10),
         SetInterpolationMode(arcMode), OutlineArc(0, 80, 0, 0 - 40),
         SetInterpolationMode("Linear"), OutlineLine(0, 40),
         SetInterpolationMode(arcMode), OutlineArc(40, 0, 40, 0),
         SetInterpolationMode("Linear"), OutlineLine(120, 0),
         SetInterpolationMode(arcMode), OutlineArc(160, 40, 0, 40),
         SetInterpolationMode("Linear"), OutlineLine(160, 80),
         SetInterpolationMode(arcMode), OutlineArc(120, 120, 0 - 40, 0),
         SetInterpolationMode("Linear"), OutlineLine(40, 120) >> \o tail :
        arcMode \in { "ClockwiseCircular", "CounterclockwiseCircular" },
        tail \in { << >>, << SetQuadrantMode("Multi") >> } }

\* A region of up to four operations, closed or not, and operations after it.
RegionOperations ==
    { Interpolate(XY(x, y), None) : x \in {0, 4}, y \in {0, 4} }
        \cup { Move(XY(4, 4)), Flash(XY(2, 2)), OtherCommand }
RegionStreams ==
    Streams(<< { ApertureDefinition(10, PlainCircle(2)) },
               { SelectAperture(10) },
               { RegionMode(TRUE), OtherCommand },
               RegionOperations,
               RegionOperations,
               { Interpolate(XY(4, 0), None), Interpolate(XY(0, 0), None), OtherCommand },
               { Interpolate(XY(0, 4), None), OtherCommand },
               { RegionMode(FALSE), OtherCommand },
               { Flash(XY(8, 8)), Interpolate(XY(8, 0), None) },
               { RegionMode(FALSE), RegionMode(TRUE) } >>)

\* Flashes of standard apertures: a circle with or without a hole, a
\* rectangle, an obround (wide, tall, square), a regular polygon of 0 to 4
\* vertices, an undefined code; inside and outside a region, with full,
\* partial and absent coordinates.
FlashApertures ==
    { Rectangle(4, 2), Obround(6, 2), Obround(2, 6), Obround(4, 4),
      Polygon(8, 0, None), Polygon(8, 1, None), Polygon(8, 2, None),
      Polygon(8, 3, Some(90)), Polygon(8, 4, None) }
FlashStreams ==
    Streams(<< { ApertureDefinition(10, Circle(8, Some(4))),
                 ApertureDefinition(10, Circle(6, Some(2))),
                 ApertureDefinition(10, PlainCircle(6)) },
               { ApertureDefinition(11, aperture) : aperture \in FlashApertures },
               { SelectAperture(10), SelectAperture(11), SelectAperture(30) },
               { RegionMode(TRUE), OtherCommand },
               { Flash(XY(2, 4)), Flash(Coordinates(Some(6), None)), Flash(NoCoordinates) },
               { RegionMode(FALSE), OtherCommand },
               { Flash(XY(-2, 0)), Move(XY(2, 2)) },
               { SelectAperture(10), SelectAperture(11) },
               { Flash(XY(0, 6)), Flash(Coordinates(None, Some(-4))) } >>)


\* ------------------------------------------------------------ specification

InitWith(streams) ==
    /\ commands \in streams
    /\ pc = "discover"
    /\ scan = 0
    /\ discovery_stack = << >>
    /\ apertures = [code \in ApertureCodes |-> None]
    /\ index = 0
    /\ replay_checked = FALSE
    /\ current_pos = Point(0, 0)
    /\ current_aperture = None
    /\ current_aperture_width = 0
    /\ interpolation_mode = "Linear"
    /\ quadrant_mode = "Single"
    /\ aperture_selection_errors = {}
    /\ current_region_vertices = << >>
    /\ in_region = FALSE
    /\ step_repeat_state = None
    /\ step_repeat_offset = Point(0, 0)
    /\ replay_stack = << >>
    /\ aperture_block_offset = Point(0, 0)
    /\ layer_primitives = << >>
    /\ bounding_box = None
    /\ argument = None
    /\ returned = None

InitBlocks == InitWith(BlockStreams)

NextBlocks ==
    \/ DiscoverStep
    \/ DiscoverDone
    \/ ReplayComplete
    \/ Finish
    \/ ExecApertureBlockOpen
    \/ ExecApertureBlockClose
    \/ ExecInterpolationMode
    \/ ExecQuadrantMode
    \/ ExecSelectAperture
    \/ ExecMove
    \/ ExecInterpolate
    \/ ExecFlash
    \/ ExecOther

\* The compiler on streams of aperture blocks.
SpecBlocks == InitBlocks /\ [][NextBlocks]_vars

\* The compiler on streams of aperture blocks, under the scheduling of the
\* pass 3 loop: the loop takes its next step whenever it has one.
SpecBlocksFair == InitBlocks /\ [][NextBlocks]_vars /\ WF_vars(NextBlocks)

InitStepRepeat == InitWith(StepRepeatStreams)

NextStepRepeat ==
    \/ DiscoverStep
    \/ DiscoverDone
    \/ Finish
    \/ ExecStepRepeatOpen
    \/ ExecStepRepeatClose
    \/ ExecSelectAperture
    \/ ExecMove
    \/ ExecInterpolate
    \/ ExecFlash
    \/ ExecOther

\* The compiler on streams with step-and-repeat markers.
SpecStepRepeat == InitStepRepeat /\ [][NextStepRepeat]_vars

InitArcs == InitWith(ArcStreams \cup OutlineStreams)

NextArcs ==
    \/ DiscoverStep
    \/ DiscoverDone
    \/ Finish
    \/ ExecInterpolationMode
    \/ ExecQuadrantMode
    \/ ExecSelectAperture
    \/ ExecMove
    \/ ExecInterpolate
    \/ ExecOther

\* The compiler on streams of linear and circular interpolations.
SpecArcs == InitArcs /\ [][NextArcs]_vars

InitFlash == InitWith(FlashStreams)

NextFlash ==
    \/ DiscoverStep
    \/ DiscoverDone
    \/ Finish
    \/ ExecRegionMode
    \/ ExecSelectAperture
    \/ ExecMove
    \/ ExecFlash
    \/ ExecOther

\* The compiler on streams of flashes of standard apertures.
SpecFlash == InitFlash /\ [][NextFlash]_vars

InitRegion == InitWith(RegionStreams)

NextRegion ==
    \/ DiscoverStep
    \/ DiscoverDone
    \/ Finish
    \/ ExecRegionMode
    \/ ExecSelectAperture
    \/ ExecMove
    \/ ExecInterpolate
    \/ ExecFlash
    \/ ExecOther

\* The compiler on streams with a region.
SpecRegion == InitRegion /\ [][NextRegion]_vars

\* ------------------------------------------------ functions called on their own

\* The state before a call of a function with one of the arguments; no layer
\* is being compiled.
InitCall(arguments) ==
    /\ argument \in { Some(a) : a \in arguments }
    /\ returned = None
    /\ commands = << >>
    /\ pc = "call"
    /\ scan = 0
    /\ discovery_stack = << >>
    /\ apertures = [code \in ApertureCodes |-> None]
    /\ index = 0
    /\ replay_checked = FALSE
    /\ current_pos = Point(0, 0)
    /\ current_aperture = None
    /\ current_aperture_width = 0
    /\ interpolation_mode = "Linear"
    /\ quadrant_mode = "Single"
    /\ aperture_selection_errors = {}
    /\ current_region_vertices = << >>
    /\ in_region = FALSE
    /\ step_repeat_state = None
    /\ step_repeat_offset = Point(0, 0)
    /\ replay_stack = << >>
    /\ aperture_block_offset = Point(0, 0)
    /\ layer_primitives = << >>
    /\ bounding_box = None

\* The called function returns value.
Return(value) ==
    /\ pc = "call"
    /\ returned = None
    /\ returned' = Some(value)
    /\ pc' = "returned"
    /\ UNCHANGED << commands, scan, discovery_stack, apertures, index, replay_checked,
                    current_pos, current_aperture, current_aperture_width,
                    interpolation_mode, quadrant_mode, aperture_selection_errors,
                    current_region_vertices, in_region, step_repeat_state,
                    step_repeat_offset, replay_stack, aperture_block_offset,
                    layer_primitives, bounding_box, argument >>

\* the sequences of at most n elements of a set
SeqUpTo(elements, n) == UNION { [1..k -> elements] : k \in 0..n }

\* GerberPolygon values: at most MaxVertices vertices on a grid whose
\* neighbours are within epsilon of each other
MaxVertices == 4
VertexGrid == { Point(x, y) : x \in {-1, 0, 2}, y \in {-1, 0, 1} }
GerberPolygons ==
    { [center |-> Point(4, 4), vertices |-> vertices, exposure |-> exposure] :
        vertices \in SeqUpTo(VertexGrid, MaxVertices),
        exposure \in { ExposureAdd, ExposureCutOut } }

InitNewPolygon == InitCall(GerberPolygons)

CallNewPolygon ==
    Return(new_polygon(Unwrap(argument).center, Unwrap(argument).vertices,
                       Unwrap(argument).exposure))

NextNewPolygon == CallNewPolygon

\* GerberPrimitive::new_polygon called on its own.
SpecNewPolygon == InitNewPolygon /\ [][NextNewPolygon]_vars

\* Arguments of dedup_with_epsilon: a vertex list and an epsilon of one grid
\* unit (only equal vertices are near) or two (neighbours are near)
DedupArguments ==
    { [vertices |-> vertices, epsilon |-> epsilon] :
        vertices \in SeqUpTo(VertexGrid, MaxVertices), epsilon \in {1, 2} }

InitDedup == InitCall(DedupArguments)

CallDedup == Return(dedup_with_epsilon(Unwrap(argument).vertices, Unwrap(argument).epsilon))

NextDedup == CallDedup

\* dedup_with_epsilon called on its own.
SpecDedup == InitDedup /\ [][NextDedup]_vars

\* Arcs: sweeps at, next to and away from 0 and a full turn, of both signs
ArcSweeps ==
    { 0, 1, -1, 2, -2, 3100, 9000, -9000, 18000, 27000, -27000,
      FullTurn - 2, FullTurn - 1, FullTurn, FullTurn + 1, FullTurn + 2,
      0 - FullTurn, 1 - FullTurn, 0 - FullTurn - 1, 0 - FullTurn - 2 }
Arcs ==
    { ArcGerberPrimitive(Point(0, 0), radius, 2, start_angle, sweep_angle, ExposureAdd) :
        radius \in {4, 10}, start_angle \in {0, 4500, -9000, 18000},
        sweep_angle \in ArcSweeps }

InitArcSampling == InitCall(Arcs)

CallIsFullCircle ==
    Return([of |-> "is_full_circle", value |-> is_full_circle(Unwrap(argument))])

CallGeneratePoints ==
    Return([of |-> "generate_points", value |-> generate_points(Unwrap(argument))])

NextArcSampling ==
    \/ CallIsFullCircle
    \/ CallGeneratePoints

\* ArcGerberPrimitive::is_full_circle and generate_points called on their own.
SpecArcSampling == InitArcSampling /\ [][NextArcSampling]_vars

\* Macro content of three nodes over the variables $1, $2 and $3: nodes that
\* fail when a variable has no value or a divisor is 0, unsupported nodes, a
\* comment, assignments, a vector line of length 0, and nodes of every
\* supported kind.
MacroPoint(x, y) == << DecimalValue(x), DecimalValue(y) >>
MacroContents ==
    Streams(<< { VariableDefinition(3, ExprSum(ExprVariable(1), ExprNumber(2))),
                 VariableDefinition(2, ExprMalformed),
                 MacroComment,
                 MacroCircle(BooleanValue(TRUE), DecimalVariable(1), MacroPoint(2, 0), None) },
               { MacroCircle(BooleanValue(FALSE),
                             DecimalExpression(ExprQuotient(ExprNumber(8), ExprVariable(2))),
                             MacroPoint(0, 2), Some(DecimalValue(90))),
                 MacroVectorLine(BooleanValue(TRUE), DecimalValue(2), MacroPoint(0, 0),
                                 << DecimalVariable(2), DecimalValue(0) >>, DecimalValue(0)),
                 MacroOutline(BooleanVariable(1),
                              << MacroPoint(0, 0), MacroPoint(4, 0),
                                 << DecimalValue(4), DecimalVariable(3) >>,
                                 MacroPoint(0, 4) >>,
                              DecimalValue(0)),
                 MacroPolygon(BooleanValue(TRUE), DecimalVariable(2), MacroPoint(0, 0),
                              DecimalValue(8), DecimalValue(0)),
                 MacroMoire },
               { MacroCenterLine(BooleanValue(TRUE), MacroPoint(4, 2), MacroPoint(2, 2),
                                 DecimalValue(90)),
                 MacroCircle(BooleanValue(TRUE), DecimalVariable(3), MacroPoint(0, 0), None),
                 MacroThermal } >>)

\* Instantiation arguments: none, literals, a copy of $1, expressions over
\* $1 that evaluate or fail
MacroArguments ==
    { None,
      Some(<< DecimalValue(4) >>),
      Some(<< DecimalValue(1), DecimalValue(0) >>),
      Some(<< DecimalValue(4), DecimalVariable(1) >>),
      Some(<< DecimalValue(4), DecimalExpression(ExprSum(ExprVariable(1), ExprNumber(2))) >>),
      Some(<< DecimalExpression(ExprMalformed), DecimalValue(2) >>) }

\* A macro, an aperture that instantiates it or an unknown macro, and flashes
\* of the aperture.
MacroStreams ==
    Streams(<< { ApertureMacro("DONUT", content) : content \in MacroContents },
               { ApertureDefinition(10, Macro("DONUT", args)) : args \in MacroArguments }
                   \cup { ApertureDefinition(10, Macro("BOX", None)) },
               { SelectAperture(10) },
               { Flash(XY(2, 4)), Move(XY(2, 4)) },
               { Flash(XY(-4, 2)), Flash(NoCoordinates) } >>)

InitMacro == InitWith(MacroStreams)

NextMacro ==
    \/ DiscoverStep
    \/ DiscoverDone
    \/ Finish
    \/ ExecSelectAperture
    \/ ExecMove
    \/ ExecFlash
    \/ ExecOther

\* The compiler on streams with a macro aperture.
SpecMacro == InitMacro /\ [][NextMacro]_vars

\* Boxes with each coordinate at f64::MIN, 0, 10 or f64::MAX
BoxCoordinates == { 0 - F64Max, 0, 10, F64Max }
BoundingBoxes ==
    { BoundingBox(Point(a, b), Point(c, d)) :
        a \in BoxCoordinates, b \in BoxCoordinates, c \in BoxCoordinates,
        d \in BoxCoordinates }

InitIsEmpty == InitCall(BoundingBoxes)

CallIsEmpty == Return(is_empty(Unwrap(argument)))

NextIsEmpty == CallIsEmpty

\* BoundingBox::is_empty called on its own.
SpecIsEmpty == InitIsEmpty /\ [][NextIsEmpty]_vars

\* GerberLayer::is_empty, of the layer that GerberLayer::new returned
layer_is_empty == is_empty(Unwrap(bounding_box))

\* GerberLayer::try_bounding_box
try_bounding_box == IF layer_is_empty THEN None ELSE bounding_box

\* A step-and-repeat whose body operations all carry X and Y: flashes of a
\* circle or of the block aperture D20, lines and moves, after a block
\* definition and a move to the position the step-and-repeat starts from.
GridStreams ==
    Streams(<< { ApertureDefinition(10, PlainCircle(2)) },
               { ApertureBlockOpen(20) },
               { SelectAperture(10) },
               { Flash(XY(2, 0)), Interpolate(XY(2, 0), None) },
               { ApertureBlockClose },
               { SelectAperture(10), SelectAperture(20) },
               { Move(XY(2, 2)), Move(XY(0, 0)) },
               { StepAndRepeatOpen(rx, ry, 10, 20) : rx \in 1..MaxRepeat, ry \in 1..MaxRepeat },
               { Flash(XY(0, 0)), Flash(XY(2, 4)), Interpolate(XY(4, 0), None),
                 Move(XY(4, 4)) },
               { Flash(XY(6, 0)), Interpolate(XY(6, 6), None), OtherCommand },
               { StepAndRepeatClose } >>)

InitGrid == InitWith(GridStreams)

NextGrid ==
    \/ DiscoverStep
    \/ DiscoverDone
    \/ ReplayComplete
    \/ Finish
    \/ ExecApertureBlockOpen
    \/ ExecStepRepeatOpen
    \/ ExecStepRepeatClose
    \/ ExecSelectAperture
    \/ ExecMove
    \/ ExecInterpolate
    \/ ExecFlash
    \/ ExecOther

\* The compiler on a step-and-repeat of flashes, lines and block flashes.
SpecGrid == InitGrid /\ [][NextGrid]_vars

\* A region entered under any interpolation mode: interpolations with and
\* without a centre offset, a flash and a move inside it, and operations
\* after its close.
RegionArcStreams ==
    Streams(<< { ApertureDefinition(10, PlainCircle(2)) },
               { SelectAperture(10) },
               { SetInterpolationMode("ClockwiseCircular"),
                 SetInterpolationMode("CounterclockwiseCircular"), OtherCommand },
               { SetQuadrantMode("Multi"), OtherCommand },
               { Move(XY(40, 0)) },
               { RegionMode(TRUE), OtherCommand },
               { OutlineArc(0, 40, 0 - 40, 0), OutlineArc(40, 0, 0 - 40, 0),
                 OutlineLine(0, 40) },
               { Flash(XY(8, 8)), OutlineArc(0 - 40, 0, 0, 0 - 40), Move(XY(0, 0)) },
               { SetInterpolationMode("Linear"), OtherCommand },
               { OutlineArc(0, 0 - 40, 40, 0) },
               { RegionMode(FALSE), OtherCommand },
               { OutlineLine(40, 0), Flash(XY(0, 0)) } >>)

InitRegionArcs == InitWith(RegionArcStreams)

NextRegionArcs ==
    \/ DiscoverStep
    \/ DiscoverDone
    \/ Finish
    \/ ExecInterpolationMode
    \/ ExecQuadrantMode
    \/ ExecRegionMode
    \/ ExecSelectAperture
    \/ ExecMove
    \/ ExecInterpolate
    \/ ExecFlash
    \/ ExecOther

\* The compiler on streams with a region under circular interpolation.
SpecRegionArcs == InitRegionArcs /\ [][NextRegionArcs]_vars

\* Selections and flashes before and between the definitions of their code:
\* a code defined never, once or twice, by standard apertures or by an
\* instantiation of a macro that the stream defines later, twice or never.
DefinitionMacroContents ==
    { << MacroCircle(BooleanValue(TRUE), DecimalValue(d), MacroPoint(0, 0), None) >> :
          d \in {4, 6} }
DefinitionStreams ==
    Streams(<< { SelectAperture(10) },
               { Flash(XY(2, 4)) },
               { ApertureDefinition(10, PlainCircle(2)),
                 ApertureDefinition(10, Macro("DONUT", None)),
                 ApertureDefinition(10, Macro("BOX", None)),
                 OtherCommand },
               { ApertureMacro("DONUT", content) : content \in DefinitionMacroContents }
                   \cup { OtherCommand },
               { SelectAperture(10), SelectAperture(11) },
               { Flash(XY(0, 0)) },
               { ApertureDefinition(10, Rectangle(4, 2)),
                 ApertureDefinition(10, Macro("DONUT", None)),
                 ApertureDefinition(10, Macro("BOX", None)),
                 ApertureDefinition(11, PlainCircle(6)),
                 OtherCommand },
               { ApertureMacro("DONUT", content) : content \in DefinitionMacroContents }
                   \cup { OtherCommand } >>)

InitDefinitions == InitWith(DefinitionStreams)

NextDefinitions ==
    \/ DiscoverStep
    \/ DiscoverDone
    \/ Finish
    \/ ExecSelectAperture
    \/ ExecFlash
    \/ ExecOther

\* The compiler on streams whose definitions follow their uses.
SpecDefinitions == InitDefinitions /\ [][NextDefinitions]_vars

\* every stream of the model
AllStreams ==
    BlockStreams \cup StepRepeatStreams \cup ArcStreams \cup OutlineStreams
        \cup RegionStreams \cup FlashStreams \cup MacroStreams \cup GridStreams
        \cup RegionArcStreams \cup DefinitionStreams

Init == InitWith(AllStreams)

Next ==
    \/ DiscoverStep
    \/ DiscoverDone
    \/ ReplayComplete
    \/ Finish
    \/ ExecApertureBlockOpen
    \/ ExecApertureBlockClose
    \/ ExecStepRepeatOpen
    \/ ExecStepRepeatClose
    \/ ExecInterpolationMode
    \/ ExecQuadrantMode
    \/ ExecRegionMode
    \/ ExecSelectAperture
    \/ ExecMove
    \/ ExecInterpolate
    \/ ExecFlash
    \/ ExecOther

\* The compiler on every stream of the model.
Spec == Init /\ [][Next]_vars

\* ------------------------------------------------------------------ claims

\* s is an initial segment of t
IsPrefix(s, t) == Len(s) <= Len(t) /\ SubSeq(t, 1, Len(s)) = s

\* the block markers of the stream among the (0-based) positions a..b
OpenMarkers(a, b) == { k \in a..b : CmdAt(k).op = "ABOpen" }
CloseMarkers(a, b) == { k \in a..b : CmdAt(k).op = "ABClose" }

\* The close marker at c is the matching close of the open marker at o: the
\* markers strictly between them pair up among themselves.
Matches(o, c) ==
    /\ o < c
    /\ CmdAt(o).op = "ABOpen"
    /\ CmdAt(c).op = "ABClose"
    /\ Cardinality(OpenMarkers(o + 1, c - 1)) = Cardinality(CloseMarkers(o + 1, c - 1))
    /\ \A k \in (o + 1)..(c - 1) :
          Cardinality(CloseMarkers(o + 1, k)) <= Cardinality(OpenMarkers(o + 1, k))

Positions == 0..(NumCommands - 1)

\* every open marker has a matching close and every close a matching open
Balanced ==
    /\ \A o \in OpenMarkers(0, NumCommands - 1) : \E c \in Positions : Matches(o, c)
    /\ \A c \in CloseMarkers(0, NumCommands - 1) : \E o \in Positions : Matches(o, c)

\* the open marker of the innermost block definition whose body holds position i
EnclosingOpens(i) == { o \in Positions : \E c \in Positions : Matches(o, c) /\ o < i /\ i < c }
InnermostOpen(i) == CHOOSE o \in EnclosingOpens(i) : \A other \in EnclosingOpens(i) : other <= o
MatchingClose(o) == CHOOSE c \in Positions : Matches(o, c)

\* C1: whatever the stream holds (an open marker without a close, an unmatched
\* close, a selection of an undefined code), build_primitives never panics: the
\* compile is never aborted.
C1_NeverPanics == pc # "panicked"

\* C5: a flash of a block pushes a frame holding the flash position, the index
\* of the flash, the block offset and both modes as they are at the flash; a
\* frame is not changed while it is on the stack; and when a replay ends, the
\* position, both modes and the block offset are the values of the frame on top
\* and execution resumes right after its flash, at every depth.
C5_ReplayRestoresFlashState ==
    [][ /\ \A k \in 1..Min2(Len(replay_stack), Len(replay_stack')) :
              replay_stack'[k] = replay_stack[k]
        /\ Len(replay_stack') > Len(replay_stack) =>
              /\ CmdAt(index).op = "Flash"
              /\ replay_stack' = Append(replay_stack,
                    [block |-> Unwrap(current_aperture),
                     initial_position |->
                        update_position(current_pos, CmdAt(index).coords, RunningOffset),
                     initial_index |-> index,
                     initial_offset |-> aperture_block_offset,
                     initial_interpolation_mode |-> interpolation_mode,
                     initial_quadrant_mode |-> quadrant_mode])
        /\ Len(replay_stack') < Len(replay_stack) =>
              /\ Len(replay_stack') = Len(replay_stack) - 1
              /\ current_pos' = ReplayTop.initial_position
              /\ interpolation_mode' = ReplayTop.initial_interpolation_mode
              /\ quadrant_mode' = ReplayTop.initial_quadrant_mode
              /\ aperture_block_offset' = ReplayTop.initial_offset
              /\ index' = ReplayTop.initial_index + 1
              /\ CmdAt(ReplayTop.initial_index).op = "Flash" ]_vars

\* C5's case: the replay of a block flashed inside another replay has just
\* ended, after its body moved the position and changed a mode
C5_NestedReplayEnded ==
    /\ pc = "execute"
    /\ replay_checked
    /\ replay_stack # << >>
    /\ aperture_block_offset # Point(0, 0)
    /\ current_pos # Point(0, 0)

\* C6: an instruction between a block's open and close markers is dispatched
\* only while a replay frame of that block is on the stack.
C6_BodyOnlyUnderReplay ==
    \A i \in Positions :
        (AtFetch /\ index = i /\ EnclosingOpens(i) # {}) =>
            \E k \in 1..Len(replay_stack) :
                /\ replay_stack[k].block.code = CmdAt(InnermostOpen(i)).code
                /\ replay_stack[k].block.start = InnermostOpen(i) + 1
                /\ replay_stack[k].block.end = MatchingClose(InnermostOpen(i)) - 1

\* C7: in a stream with balanced markers the block on top of the replay stack
\* is an open marker's body up to its matching close, and during its replay
\* only instructions strictly between the two markers are dispatched.
C7_ReplayStaysInsideBlock ==
    (Balanced /\ AtFetch /\ index < NumCommands /\ replay_stack # << >>) =>
        /\ Matches(ReplayTop.block.start - 1, ReplayTop.block.end + 1)
        /\ CmdAt(ReplayTop.block.start - 1).code = ReplayTop.block.code
        /\ ReplayTop.block.start <= index
        /\ index <= ReplayTop.block.end

\* the kinds of the primitives of a list, in order
Kinds(primitives) == [k \in 1..Len(primitives) |-> primitives[k].prim]

Contains(outer, inner) ==
    /\ PX(outer.min) <= PX(inner.min)
    /\ PY(outer.min) <= PY(inner.min)
    /\ PX(inner.max) <= PX(outer.max)
    /\ PY(inner.max) <= PY(outer.max)

\* C3: the bounding box of a compiled layer contains the bounding box of each
\* of its primitives, on both axes.
C3_LayerBoxContainsPrimitives ==
    pc = "done" =>
        \A k \in 1..Len(layer_primitives) :
            Contains(Unwrap(bounding_box), PrimitiveBoundingBox(layer_primitives[k]))

\* C3's case: a compiled layer with a region's polygon and a flashed circle
\* far from it
C3_CompiledPolygonAndCircle ==
    /\ pc = "done"
    /\ \E k \in 1..Len(layer_primitives) : layer_primitives[k].prim = "Polygon"
    /\ \E k \in 1..Len(layer_primitives) : layer_primitives[k].prim = "Circle"

\* C4: during pass 3 every step leaves the primitives emitted so far unchanged
\* and in place: the list only grows at its end.
C4_PrimitivesAppendOnly == [][IsPrefix(layer_primitives, layer_primitives')]_vars

\* C4's case: primitives were emitted before and during the replay of a block
C4_EmittedDuringReplay ==
    /\ replay_stack # << >>
    /\ Len(layer_primitives) >= 2
    /\ index > ReplayTop.block.start

\* The one-flash step-and-repeat of C8: only selections, moves and definitions,
\* then the open marker at position o, one flash, and the close marker.
SingleFlashRepeatAt(o) ==
    /\ o + 2 < NumCommands
    /\ CmdAt(o).op = "SROpen"
    /\ CmdAt(o + 1).op = "Flash"
    /\ CmdAt(o + 2).op = "SRClose"
    /\ \A k \in 0..(o - 1) :
          CmdAt(k).op \in {"ApertureDefinition", "SelectAperture", "Move", "Other"}

\* the copies C8 expects: copy k (0-based) is at column k \div n and row k % n
RECURSIVE RepeatedFlashes(_, _, _, _)
RepeatedFlashes(aperture, base, repeat, k) ==
    IF k >= repeat.repeat_x * repeat.repeat_y THEN << >>
    ELSE FlashStandard(aperture,
                       AddVec(base, Point((k \div repeat.repeat_y) * repeat.distance_x,
                                          (k % repeat.repeat_y) * repeat.distance_y)))
         \o RepeatedFlashes(aperture, base, repeat, k + 1)

\* C8: when a step-and-repeat of m x n whose body is one flash of a standard
\* aperture is over, the primitives are the m * n copies of the flash, at the
\* flash position plus (i * distance_x, j * distance_y), with j running first.
C8_RepeatedFlashIsGrid ==
    \A o \in Positions :
        ( /\ SingleFlashRepeatAt(o)
          /\ pc = "execute"
          /\ index = o + 3
          /\ IsSome(current_aperture)
          /\ Unwrap(current_aperture).local = "Standard" ) =>
            layer_primitives =
                RepeatedFlashes(Unwrap(current_aperture).aperture,
                                update_position(current_pos, CmdAt(o + 1).coords, Point(0, 0)),
                                CmdAt(o), 0)

InterpolationEmits(emitted, cmd, pos, end, diameter) ==
    IF interpolation_mode = "Linear"
    THEN /\ Kinds(emitted) = << "Line" >>
         /\ emitted[1].start = pos
         /\ emitted[1].end = end
         /\ emitted[1].width = diameter
    ELSE IsSome(cmd.offset) =>
           \E arc \in { emitted[k] : k \in 1..Len(emitted) } :
              LET offset_i == IF IsSome(Unwrap(cmd.offset).x) THEN Unwrap(Unwrap(cmd.offset).x) ELSE 0
                  offset_j == IF IsSome(Unwrap(cmd.offset).y) THEN Unwrap(Unwrap(cmd.offset).y) ELSE 0
              IN  /\ arc.prim = "Arc"
                  /\ arc.center = Point(PX(pos) + offset_i, PY(pos) + offset_j)
                  /\ arc.radius * arc.radius <= offset_i * offset_i + offset_j * offset_j
                  /\ (arc.radius + 1) * (arc.radius + 1) > offset_i * offset_i + offset_j * offset_j
                  /\ IF Abs(arc.sweep_angle) \in {0, FullTurn}
                     THEN emitted = << arc >>
                     ELSE /\ Kinds(emitted) = << "Circle", "Arc", "Circle" >>
                          /\ emitted[2] = arc
                          /\ emitted[1].diameter = diameter
                          /\ emitted[3].diameter = diameter
                          /\ emitted[1].center = AddVec(SamplePoint(arc, 0), arc.center)
                          /\ emitted[3].center =
                                AddVec(SamplePoint(arc, ArcSteps(arc) - 1), arc.center)

\* C10: outside a region with a plain circle selected, a circular
\* interpolation with an (I,J) offset appends one Arc when the sweep is a full
\* circle and else Circle, Arc, Circle (circles of the aperture's diameter at
\* the arc's first and last sampled points, the arc about position + (I,J) with
\* radius |(I,J)|), and a linear one appends one Line; so the outline of four
\* (arc, line) pairs compiles to Circle, Arc, Circle, Line four times over.
C10_InterpolationPrimitives ==
    /\ [](( pc = "done" /\ commands \in OutlineStreams) =>
            /\ Len(layer_primitives) = 16
            /\ \A k \in 1..16 :
                  layer_primitives[k].prim =
                      << "Circle", "Arc", "Circle", "Line" >>[((k - 1) % 4) + 1])
    /\ [][ ( /\ Dispatching("Interpolate")
             /\ ~in_region
             /\ IsSome(current_aperture)
             /\ IsStandardCircle(Unwrap(current_aperture)) ) =>
              /\ IsPrefix(layer_primitives, layer_primitives')
              /\ InterpolationEmits(
                    SubSeq(layer_primitives', Len(layer_primitives) + 1, Len(layer_primitives')),
                    CmdAt(index), current_pos,
                    update_position(current_pos, CmdAt(index).coords, RunningOffset),
                    Unwrap(current_aperture).aperture.diameter)
         ]_vars

\* C10's case: a full-circle arc, then an arc of a quarter turn between its
\* two circles
C10_FullCircleThenArc ==
    /\ Kinds(layer_primitives) = << "Arc", "Circle", "Arc", "Circle" >>
    /\ Abs(layer_primitives[1].sweep_angle) \in {0, FullTurn}
    /\ Abs(layer_primitives[3].sweep_angle) = QuarterTurn

\* C11: outside a region, a flash with a standard circle aperture of diameter
\* d selected appends exactly one primitive at the flash position P: without a
\* hole the circle of centre P and diameter d, with a hole of diameter h the
\* arc of centre P, radius (d/2 + h/2)/2, width d/2 - h/2, start angle 0 and a
\* sweep of one full turn; both with exposure Add.
C11_CircleFlashPrimitive ==
    [][ ( /\ Dispatching("Flash")
          /\ ~in_region
          /\ IsSome(current_aperture)
          /\ IsStandardCircle(Unwrap(current_aperture)) ) =>
            LET d == Unwrap(current_aperture).aperture.diameter
                hole == Unwrap(current_aperture).aperture.hole_diameter
                P == update_position(current_pos, CmdAt(index).coords, RunningOffset)
                emitted == layer_primitives'[Len(layer_primitives')]
            IN  /\ current_pos' = P
                /\ Len(layer_primitives') = Len(layer_primitives) + 1
                /\ SubSeq(layer_primitives', 1, Len(layer_primitives)) = layer_primitives
                /\ emitted.exposure = "Add"
                /\ emitted.center = P
                /\ IF ~IsSome(hole)
                   THEN /\ emitted.prim = "Circle"
                        /\ emitted.diameter = d
                   ELSE /\ emitted.prim = "Arc"
                        /\ 2 * emitted.radius = (d \div 2) + (Unwrap(hole) \div 2)
                        /\ emitted.width = (d \div 2) - (Unwrap(hole) \div 2)
                        /\ emitted.start_angle = 0
                        /\ Abs(emitted.sweep_angle) = FullTurn
      ]_vars

\* C11's case: a circle with a hole of diameter 4 in a diameter of 8 has been
\* flashed twice, at (2, 4) and at (0, 6), each flash giving one arc
C11_HoledCircleFlashed ==
    /\ pc = "done"
    /\ Len(layer_primitives) = 2
    /\ layer_primitives[1].prim = "Arc"
    /\ layer_primitives[1].center = Point(2, 4)
    /\ layer_primitives[1].radius = 3
    /\ layer_primitives[1].width = 2
    /\ layer_primitives[2].prim = "Arc"
    /\ layer_primitives[2].center = Point(0, 6)

\* s is t with some elements left out
RECURSIVE IsSubsequence(_, _)
IsSubsequence(s, t) ==
    IF s = << >> THEN TRUE
    ELSE IF t = << >> THEN FALSE
    ELSE IF Head(s) = Head(t) THEN IsSubsequence(Tail(s), Tail(t))
    ELSE IsSubsequence(s, Tail(t))

\* kept is what an epsilon-deduplication may leave of original: a subsequence
\* with the same first vertex, whose missing vertices are each within epsilon,
\* in both coordinates, of a kept vertex
IsDeduplicationOf(kept, original, epsilon) ==
    /\ IsSubsequence(kept, original)
    /\ kept # << >>
    /\ kept[1] = original[1]
    /\ \A k \in 1..Len(original) :
          \E j \in 1..Len(kept) :
              /\ Abs(PX(original[k]) - PX(kept[j])) < epsilon
              /\ Abs(PY(original[k]) - PY(kept[j])) < epsilon

\* C12: when region mode is switched off while a region is open with n
\* accumulated vertices: for n >= 3 exactly one polygon of exposure Add is
\* appended, its centre is the midpoint of the bounding box of the accumulated
\* vertices, and its stored vertices translated by the centre are the
\* accumulated vertices, possibly in reverse order and with near-duplicates
\* left out; for n < 3 nothing is appended.
C12_RegionOffAppendsPolygon ==
    [][ (Dispatching("RegionMode") /\ ~CmdAt(index).enabled /\ in_region) =>
            LET accumulated == current_region_vertices
                n == Len(accumulated)
                xs == { PX(accumulated[k]) : k \in 1..n }
                ys == { PY(accumulated[k]) : k \in 1..n }
                Least(values) == CHOOSE v \in values : \A w \in values : v <= w
                Greatest(values) == CHOOSE v \in values : \A w \in values : v >= w
                polygon == layer_primitives'[Len(layer_primitives')]
                stored == [k \in 1..Len(polygon.relative_vertices) |->
                              AddVec(polygon.relative_vertices[k], polygon.center)]
            IN  IF n >= 3
                THEN /\ Len(layer_primitives') = Len(layer_primitives) + 1
                     /\ SubSeq(layer_primitives', 1, Len(layer_primitives)) = layer_primitives
                     /\ polygon.prim = "Polygon"
                     /\ polygon.exposure = "Add"
                     /\ 2 * PX(polygon.center) = Least(xs) + Greatest(xs)
                     /\ 2 * PY(polygon.center) = Least(ys) + Greatest(ys)
                     /\ \/ IsDeduplicationOf(stored, accumulated, DedupEpsilon)
                        \/ IsDeduplicationOf(stored, Reverse(accumulated), DedupEpsilon)
                ELSE layer_primitives' = layer_primitives
      ]_vars

\* C12's case: a region of four accumulated vertices has been closed into a
\* polygon that stores fewer vertices, in reverse order
C12_RegionClosedReversedAndDeduplicated ==
    /\ pc = "done"
    /\ ~in_region
    /\ Len(current_region_vertices) = 4
    /\ Len(layer_primitives) >= 1
    /\ layer_primitives[1].prim = "Polygon"
    /\ Len(layer_primitives[1].relative_vertices) < 4
    /\ AddVec(layer_primitives[1].relative_vertices[1], layer_primitives[1].center)
          = current_region_vertices[4]
    /\ current_region_vertices[4] # current_region_vertices[1]

\* C13: every polygon of the compiled layer stores at least 3 vertices,
\* whatever produced it (a region, a flash of a regular-polygon aperture of
\* any vertex count, a macro node).
C13_PolygonsHaveThreeVertices ==
    \A k \in 1..Len(layer_primitives) :
        layer_primitives[k].prim = "Polygon" =>
            Len(layer_primitives[k].relative_vertices) >= 3

\* C14: for every polygon built by new_polygon, Winding::from_vertices of
\* the stored relative vertices is CounterClockwise, also when the
\* deduplication removed vertices.
C14_StoredWindingCounterClockwise ==
    IsSome(returned) =>
        WindingFromVertices(Unwrap(returned).relative_vertices) = "CounterClockwise"

\* the elements of seq at the indices of the set kept, in order
Restricted(seq, kept) ==
    [k \in 1..Cardinality(kept) |->
        seq[CHOOSE i \in kept : Cardinality({ j \in kept : j < i }) = k - 1]]

\* kept is the set of indices a deduplication retains: the first index, and
\* every later index whose vertex is not within epsilon, in both coordinates,
\* of the vertex at the last retained index before it
IsRetained(vertices, kept, epsilon) ==
    /\ 1 \in kept
    /\ \A i \in 2..Len(vertices) :
          LET last == CHOOSE j \in kept : j < i /\ \A l \in kept : l < i => l <= j
          IN  i \in kept <=>
                  ~ ( /\ Abs(PX(vertices[last]) - PX(vertices[i])) < epsilon
                      /\ Abs(PY(vertices[last]) - PY(vertices[i])) < epsilon )

\* C15: dedup_with_epsilon returns its input unchanged whenever removing the
\* near-duplicates would leave fewer than 3 vertices; otherwise it returns the
\* subsequence that keeps the first vertex and drops exactly the vertices
\* within epsilon, in both coordinates, of the last retained vertex.
C15_DedupKeepsThreeOrDropsNear ==
    IsSome(returned) =>
        LET vertices == Unwrap(argument).vertices
            epsilon == Unwrap(argument).epsilon
        IN  IF vertices = << >>
            THEN Unwrap(returned) = vertices
            ELSE \E kept \in SUBSET (1..Len(vertices)) :
                    /\ IsRetained(vertices, kept, epsilon)
                    /\ Unwrap(returned) = IF Cardinality(kept) < 3 THEN vertices
                                          ELSE Restricted(vertices, kept)

\* C15's case: of four vertices the second, a neighbour of the first, was
\* dropped and three remain
C15_NearDuplicateDropped ==
    /\ IsSome(returned)
    /\ Len(Unwrap(argument).vertices) = 4
    /\ Len(Unwrap(returned)) = 3
    /\ Unwrap(argument).vertices[2] # Unwrap(argument).vertices[1]
    /\ Unwrap(returned)[2] = Unwrap(argument).vertices[3]

\* C16: an arc is a full circle exactly when |sweep| < EPSILON or
\* ||sweep| - 2 PI| < EPSILON; generate_points returns 33 points with the last
\* equal to the first for a full circle, and for any other arc 32 points at
\* angles evenly spaced from start_angle over the sweep, in the direction of
\* the sweep's sign.
C16_FullCircleAndSampling ==
    IsSome(returned) =>
        LET arc == Unwrap(argument)
            sweep == arc.sweep_angle
            full == \/ (sweep < ArcEpsilon /\ 0 - sweep < ArcEpsilon)
                    \/ \E magnitude \in { sweep, 0 - sweep } :
                          /\ magnitude >= 0
                          /\ magnitude - FullTurn < ArcEpsilon
                          /\ FullTurn - magnitude < ArcEpsilon
            result == Unwrap(returned).value
        IN  IF Unwrap(returned).of = "is_full_circle"
            THEN result = full
            ELSE IF full
                 THEN Len(result) = 33 /\ result[33] = result[1]
                 ELSE /\ Len(result) = 32
                      /\ \A k \in 0..31 :
                            LET turned == ((IF sweep < 0 THEN 0 - sweep ELSE sweep) * k) \div 31
                                angle == IF sweep < 0 THEN arc.start_angle - turned
                                         ELSE arc.start_angle + turned
                            IN  result[k + 1] = Point(Scaled(arc.radius, Cos(angle)),
                                                      Scaled(arc.radius, Sin(angle)))

\* C16's case: generate_points has returned the 33 points of an arc whose
\* sweep is one unit short of a full turn in the negative direction
C16_NearFullCircleSampled ==
    /\ IsSome(returned)
    /\ Unwrap(returned).of = "generate_points"
    /\ Unwrap(argument).sweep_angle = 1 - FullTurn
    /\ Len(Unwrap(returned).value) = 33

\* the scan is at the definition of an aperture from a macro that the stream
\* defines
ExpandingMacro ==
    /\ pc = "discover"
    /\ scan < NumCommands
    /\ CmdAt(scan).op = "ApertureDefinition"
    /\ CmdAt(scan).aperture.kind = "Macro"
    /\ IsSome(MacroDefinition(CmdAt(scan).aperture.name))

\* the result of content node k of the macro being expanded
NodeResult(k) ==
    LET content == Unwrap(MacroDefinition(CmdAt(scan).aperture.name)).content
        args == CmdAt(scan).aperture.args
        initial == IF IsSome(args) THEN SeededContext(Unwrap(args), Len(Unwrap(args)))
                   ELSE MacroContextDefault
    IN  process_content(content[k], ContextBefore(content, k, initial)).result

\* C17: while a macro aperture is expanded each content node contributes at
\* most one template primitive; a node that fails to evaluate, a Moire, a
\* Thermal, a comment and a variable assignment contribute none; and the
\* nodes after them are still processed, so that the cached template list is
\* the in-order list of the primitives of the nodes that evaluated to one.
C17_TemplatesOfSuccessfulNodes ==
    [][ ExpandingMacro =>
            LET content == Unwrap(MacroDefinition(CmdAt(scan).aperture.name)).content
                contributing == { k \in 1..Len(content) :
                                     NodeResult(k).ok /\ IsSome(NodeResult(k).value) }
                cached == Unwrap(apertures'[CmdAt(scan).code]).aperture.primitives
            IN  /\ \A k \in 1..Len(content) :
                      content[k].content \in
                          {"Moire", "Thermal", "Comment", "VariableDefinition"}
                          => k \notin contributing
                /\ Len(cached) = Cardinality(contributing)
                /\ Len(cached) <= Len(content)
                /\ \A j \in 1..Len(cached) :
                      LET k == CHOOSE i \in contributing :
                                  Cardinality({ l \in contributing : l < i }) = j - 1
                      IN  cached[j] = Unwrap(NodeResult(k).value)
      ]_vars

\* C17's case: the macro's first node is an assignment, its second a circle
\* that failed to evaluate, and the cached list is the polygon of the third
C17_NodeAfterFailureCached ==
    /\ pc = "discover"
    /\ scan = 2
    /\ CmdAt(0).content[1].content = "VariableDefinition"
    /\ CmdAt(0).content[2].content = "Circle"
    /\ CmdAt(0).content[3].content = "CenterLine"
    /\ IsSome(apertures[10])
    /\ Len(Unwrap(apertures[10]).aperture.primitives) = 1
    /\ Unwrap(apertures[10]).aperture.primitives[1].prim = "Polygon"

\* C18: BoundingBox::is_empty is true exactly for the box of
\* BoundingBox::default(), min = (f64::MAX, f64::MAX) and max = (f64::MIN,
\* f64::MIN); every other box, the box from (0, 0) to (0, 0) included, is not
\* empty.
C18_EmptyIsTheSentinel ==
    IsSome(returned) =>
        LET box == Unwrap(argument)
        IN  Unwrap(returned) <=>
                /\ box.min[1] = F64Max
                /\ box.min[2] = F64Max
                /\ box.max[1] = 0 - F64Max
                /\ box.max[2] = 0 - F64Max

\* C18's case: is_empty has returned false for the box from (0, 0) to (0, 0)
C18_ZeroBoxNotEmpty ==
    /\ IsSome(returned)
    /\ Unwrap(argument) = [min |-> << 0, 0 >>, max |-> << 0, 0 >>]
    /\ Unwrap(returned) = FALSE

\* C19: for a compiled layer, GerberLayer::is_empty() is true and
\* try_bounding_box() is None exactly when the compile produced no primitive:
\* a layer with primitives has a bounding box other than the sentinel.
C19_EmptyLayerHasNoPrimitives ==
    pc = "done" =>
        /\ layer_is_empty <=> layer_primitives = << >>
        /\ try_bounding_box = None <=> layer_primitives = << >>

\* the step-and-repeat statement of the stream
GridOpen == commands[CHOOSE k \in 1..Len(commands) : commands[k].op = "SROpen"]

\* the primitives of the k-th of count iterations, in emission order
IterationPrimitives(k, count) ==
    LET n == Len(layer_primitives) \div count
    IN  SubSeq(layer_primitives, k * n + 1, k * n + n)

\* C20: when every operation of a step-and-repeat body carries X and Y, the
\* primitives of grid iteration (i, j) are the primitives of iteration (0, 0)
\* translated by (i * distance_x, j * distance_y), the primitives of a block
\* aperture flashed in the body included.
C20_IterationIsTranslatedCopy ==
    pc = "done" =>
        LET open == GridOpen
            count == open.repeat_x * open.repeat_y
        IN  /\ Len(layer_primitives) % count = 0
            /\ \A i \in 0..(open.repeat_x - 1), j \in 0..(open.repeat_y - 1) :
                  LET first == IterationPrimitives(0, count)
                      copy == IterationPrimitives(i * open.repeat_y + j, count)
                  IN  copy = [m \in 1..Len(first) |->
                                 Translated(first[m],
                                            Point(i * open.distance_x, j * open.distance_y))]

\* the coordinates of the block flash that pushed replay frame k
FlashCoordinates(k) == CmdAt(replay_stack[k].initial_index).coords

\* the block flashes of the first k replay frames all carry X and Y
FlashesCarryXY(k) ==
    \A j \in 1..k : IsSome(FlashCoordinates(j).x) /\ IsSome(FlashCoordinates(j).y)

\* the sum of the flash coordinates of the first k replay frames
RECURSIVE SumOfFlashes(_)
SumOfFlashes(k) ==
    IF k = 0 THEN Point(0, 0)
    ELSE AddVec(SumOfFlashes(k - 1),
                Point(Unwrap(FlashCoordinates(k).x), Unwrap(FlashCoordinates(k).y)))

\* where an operation put its primitive: a flash its centre, a line its end
PlacedAt(primitive) ==
    IF primitive.prim = "Line" THEN primitive.end ELSE primitive.center

\* C21: outside a step-and-repeat, the replay of a block flashed at P offsets
\* every coordinate of the body by exactly P, and P is the sum of the flash
\* coordinates of the enclosing block flashes at every nesting depth.
C21_ReplayOffsetIsFlashPosition ==
    [][(/\ pc = "execute"
        /\ replay_stack # << >>
        /\ step_repeat_offset = Point(0, 0)
        /\ Len(layer_primitives') > Len(layer_primitives))
       => LET coords == CmdAt(index).coords
              depth == Len(replay_stack)
              P == ReplayTop.initial_position
              placed == PlacedAt(layer_primitives'[Len(layer_primitives')])
          IN  /\ aperture_block_offset = P
              /\ IsSome(coords.x) => PX(placed) = Unwrap(coords.x) + PX(P)
              /\ IsSome(coords.y) => PY(placed) = Unwrap(coords.y) + PY(P)
              /\ FlashesCarryXY(depth) => P = SumOfFlashes(depth)]_vars

\* a circle emitted at nesting depth 2: flashes at (6, 6) and (4, 0), the
\* body's own flash at (2, 2)
C21_CircleAtDepthTwo ==
    /\ Len(replay_stack) = 2
    /\ FlashesCarryXY(2)
    /\ SumOfFlashes(2) = Point(10, 6)
    /\ layer_primitives # << >>
    /\ layer_primitives[Len(layer_primitives)].prim = "Circle"
    /\ layer_primitives[Len(layer_primitives)].center = Point(12, 8)

C23_CloseMarkerNeverDispatched == Balanced => ~Dispatching("ABClose")

\* C24: after any region-mode-off instruction the interpreter is not in
\* region mode, whether or not a polygon was emitted.
C24_RegionOffLeavesRegion ==
    [][(Dispatching("RegionMode") /\ ~CmdAt(index).enabled /\ index' = index + 1)
       => ~in_region']_vars

\* the primitives a step appended
Emitted == SubSeq(layer_primitives', Len(layer_primitives) + 1, Len(layer_primitives'))

\* C25: whenever a circular interpolation emits an Arc, the currently
\* selected aperture is a plain circle, and the width of the Arc and the
\* diameter of its filler Circles equal the diameter of that aperture.
C25_ArcWidthIsCurrentDiameter ==
    [][(/\ Dispatching("Interpolate")
        /\ interpolation_mode # "Linear"
        /\ \E k \in 1..Len(Emitted) : Emitted[k].prim = "Arc")
       => /\ IsSome(current_aperture)
          /\ IsStandardCircle(Unwrap(current_aperture))
          /\ \A k \in 1..Len(Emitted) :
                /\ Emitted[k].prim = "Arc"
                      => Emitted[k].width = Unwrap(current_aperture).aperture.diameter
                /\ Emitted[k].prim = "Circle"
                      => Emitted[k].diameter = Unwrap(current_aperture).aperture.diameter]_vars

\* the cross product of the two edges at the vertex triple that starts at
\* vertex i (1-based), taken cyclically
CrossProductAt(vertices, i) ==
    LET n == Len(vertices)
        p1 == vertices[i]
        p2 == vertices[(i % n) + 1]
        p3 == vertices[((i + 1) % n) + 1]
    IN  (PX(p2) - PX(p1)) * (PY(p3) - PY(p2)) - (PY(p2) - PY(p1)) * (PX(p3) - PX(p2))

\* all non-zero cross products of the vertex list have one sign
NonZeroCrossProductsAgree(vertices) ==
    ~\E i, j \in 1..Len(vertices) :
        CrossProductAt(vertices, i) > 0 /\ CrossProductAt(vertices, j) < 0

\* C26: is_convex is true exactly when all non-zero cross products of
\* consecutive edge pairs have the same sign, zero cross products never
\* changing the result; fewer than 3 vertices are convex.
C26_ConvexIffCrossProductsAgree ==
    pc = "returned" =>
        LET vertices == Unwrap(argument).vertices
        IN  Unwrap(returned).is_convex
                <=> (Len(vertices) < 3 \/ NonZeroCrossProductsAgree(vertices))

\* the fewer-than-3 abort of dedup_with_epsilon applies to the vertex list
DedupAborts(vertices, epsilon) ==
    /\ Len(vertices) >= 2
    /\ Len(vertices) - Cardinality(ToRemoveFrom(vertices, 2, 1, epsilon)) < 3

\* C27: unless the fewer-than-3 abort applies, the list returned by
\* dedup_with_epsilon has no two cyclically adjacent vertices, the last and
\* the first included, within epsilon of each other in both coordinates.
C27_NoCyclicNeighboursWithinEpsilon ==
    pc = "returned" =>
        LET epsilon == Unwrap(argument).epsilon
            result == Unwrap(returned)
            n == Len(result)
        IN  (~DedupAborts(Unwrap(argument).vertices, epsilon) /\ n >= 2) =>
                \A k \in 1..n : ~WithinEpsilon(result[k], result[(k % n) + 1], epsilon)

\* a step-and-repeat marker that acts: dispatched outside any block replay
StepRepeatMarker(op) == Dispatching(op) /\ replay_stack = << >>

\* C28: the step-and-repeat close that exhausts both grid counters clears the
\* active repeat and the step-repeat offset and continues after the close
\* marker; with no active repeat the offset is zero, and a later open starts
\* a fresh repeat with both counters at 0.
C28_ExhaustedCloseClearsRepeat ==
    [][/\ (/\ StepRepeatMarker("SRClose")
           /\ IsSome(step_repeat_state)
           /\ Unwrap(step_repeat_state).x_index = Unwrap(step_repeat_state).repeat_x - 1
           /\ Unwrap(step_repeat_state).y_index = Unwrap(step_repeat_state).repeat_y - 1)
          => (/\ step_repeat_state' = None
              /\ step_repeat_offset' = Point(0, 0)
              /\ index' = index + 1)
       /\ ~IsSome(step_repeat_state) => step_repeat_offset = Point(0, 0)
       /\ (StepRepeatMarker("SROpen") /\ ~IsSome(step_repeat_state))
          => (/\ IsSome(step_repeat_state')
              /\ Unwrap(step_repeat_state').x_index = 0
              /\ Unwrap(step_repeat_state').y_index = 0
              /\ Unwrap(step_repeat_state').start_index = index + 1
              /\ step_repeat_offset' = Point(0, 0))]_vars

\* a second repeat has started fresh after a 2 x 2 repeat with primitives
\* ran to its end
C28_FreshRepeatAfterExhausted ==
    /\ pc = "execute"
    /\ commands[5].op = "SROpen" /\ commands[5].repeat_x = 2 /\ commands[5].repeat_y = 2
    /\ commands[9].op = "SROpen"
    /\ index = 9
    /\ IsSome(step_repeat_state)
    /\ Unwrap(step_repeat_state).start_index = 9
    /\ Unwrap(step_repeat_state).x_index = 0
    /\ Unwrap(step_repeat_state).y_index = 0
    /\ step_repeat_offset = Point(0, 0)
    /\ Len(layer_primitives) >= 4

\* C29: a step-and-repeat open met while a repeat is active leaves the active
\* descriptor and the step-repeat offset unchanged, and a step-and-repeat
\* close with no active repeat changes no state (the loop only moves on to
\* the next instruction).
C29_OneRepeatAtATime ==
    [][/\ (Dispatching("SROpen") /\ IsSome(step_repeat_state))
          => UNCHANGED << step_repeat_state, step_repeat_offset >>
       /\ (Dispatching("SRClose") /\ ~IsSome(step_repeat_state))
          => (/\ index' = index + 1
              /\ UNCHANGED << commands, pc, discoveryVars, current_pos, current_aperture,
                              current_aperture_width, modeVars,
                              aperture_selection_errors, regionVars, stepRepeatVars,
                              replay_stack, aperture_block_offset, layer_primitives,
                              bounding_box >>)]_vars

\* the open marker at index 5 has been met while the repeat opened at index 4
\* was active, and that repeat is still the active one
C29_OpenWhileActiveIgnored ==
    /\ pc = "execute"
    /\ commands[5].op = "SROpen"
    /\ commands[6].op = "SROpen"
    /\ index = 6
    /\ IsSome(step_repeat_state)
    /\ Unwrap(step_repeat_state).start_index = 5
    /\ Unwrap(step_repeat_state).distance_x = 10
    /\ Unwrap(step_repeat_state).repeat_x = commands[5].repeat_x
    /\ Unwrap(step_repeat_state).repeat_y = commands[5].repeat_y

\* C30: when the replay of a block ends the current aperture is the flashed
\* block aperture itself, whatever the body selected, so a flash that follows
\* at once with no new selection replays the same block at its own position.
C30_ReplayEndRestoresBlockAperture ==
    [][/\ Len(replay_stack') < Len(replay_stack)
          => current_aperture' = Some(ReplayTop.block)
       /\ (replay_checked /\ Dispatching("Flash") /\ ~in_region)
          => (/\ CmdAt(index - 1).op = "Flash"
              /\ Len(replay_stack') = Len(replay_stack) + 1
              /\ replay_stack'[Len(replay_stack')].block = Unwrap(current_aperture)
              /\ replay_stack'[Len(replay_stack')].initial_position =
                    update_position(current_pos, CmdAt(index).coords, RunningOffset)
              /\ index' = Unwrap(current_aperture).start)]_vars

\* block D20, whose body selects D10 and flashes, is being replayed again by
\* the flash that directly follows the flash that replayed it first
C30_SameBlockReplayedAgain ==
    /\ pc = "execute"
    /\ commands[3].op = "SelectAperture" /\ commands[3].code = 10
    /\ commands[4].op = "Flash"
    /\ commands[6].op = "Other"
    /\ commands[11].op = "Flash"
    /\ commands[12].op = "Flash"
    /\ Len(replay_stack) = 1
    /\ ReplayTop.initial_index = 11
    /\ ReplayTop.block.code = 20
    /\ index = ReplayTop.block.start
    /\ layer_primitives # << >>

\* ---- C31

\* the target of the dispatched operation: each given coordinate plus the
\* running offset, an omitted coordinate keeps the current value
OperationTarget ==
    LET coords == CmdAt(index).coords
    IN  Point(IF IsSome(coords.x)
              THEN Unwrap(coords.x) + PX(step_repeat_offset) + PX(aperture_block_offset)
              ELSE PX(current_pos),
              IF IsSome(coords.y)
              THEN Unwrap(coords.y) + PY(step_repeat_offset) + PY(aperture_block_offset)
              ELSE PY(current_pos))

\* the step appends exactly one primitive, a Polygon
AppendsOnePolygon ==
    /\ Len(layer_primitives') = Len(layer_primitives) + 1
    /\ SubSeq(layer_primitives', 1, Len(layer_primitives)) = layer_primitives
    /\ layer_primitives'[Len(layer_primitives')].prim = "Polygon"

\* C31: while region mode is on, an interpolation in any interpolation mode
\* only appends its endpoint to the vertex accumulator, a flash changes
\* nothing, and the primitive list changes only at a region close, by one
\* Polygon.
C31_RegionAppendsOnlyAtClose ==
    [][in_region =>
          /\ Dispatching("Interpolate") =>
                /\ layer_primitives' = layer_primitives
                /\ current_region_vertices' =
                      Append(current_region_vertices, OperationTarget)
          /\ Dispatching("Flash") =>
                UNCHANGED << layer_primitives, current_region_vertices, current_pos,
                             replay_stack >>
          /\ \/ layer_primitives' = layer_primitives
             \/ /\ Dispatching("RegionMode")
                /\ ~CmdAt(index).enabled
                /\ AppendsOnePolygon]_vars

\* C31 witness: a region that took a circular interpolation with a centre
\* offset under a circular mode has closed with one Polygon as the only
\* primitive
C31_CircularRegionClosed ==
    /\ commands \in RegionArcStreams
    /\ commands[3].op = "InterpolationMode"
    /\ commands[6].op = "RegionMode"
    /\ commands[8].op = "Interpolate"
    /\ commands[9].op = "Other"
    /\ index = 11
    /\ ~in_region
    /\ Len(layer_primitives) = 1
    /\ layer_primitives[1].prim = "Polygon"

\* ---- C32

\* C32: a Move dispatched inside an open region appends a copy of the
\* accumulator's first vertex when the accumulator is non-empty and nothing
\* when it is empty, never the move target, and the current position
\* becomes the move target.
C32_MoveInRegionClosesSubPath ==
    [][Dispatching("Move") /\ in_region =>
          /\ current_pos' = OperationTarget
          /\ current_region_vertices' =
                IF Len(current_region_vertices) > 0
                THEN current_region_vertices \o << current_region_vertices[1] >>
                ELSE << >>
          /\ layer_primitives' = layer_primitives]_vars

\* C32 witness: a move inside a region that held one vertex has repeated that
\* vertex and gone to a target that is not a vertex
C32_SubPathClosedByMove ==
    /\ commands \in RegionStreams
    /\ in_region
    /\ commands[5].op = "Move"
    /\ index = 5
    /\ Len(current_region_vertices) = 2
    /\ current_region_vertices[2] = current_region_vertices[1]
    /\ current_pos = Point(4, 4)
    /\ current_region_vertices[2] # current_pos

\* ---- C33

\* end_angle - start_angle normalised by one full turn: in (-FullTurn, 0] for
\* ClockwiseCircular, in [0, FullTurn) for CounterclockwiseCircular
NormalisedSweep(mode, start_angle, end_angle) ==
    LET turn == (end_angle - start_angle) % FullTurn
    IN  IF mode = "CounterclockwiseCircular" THEN turn
        ELSE IF turn = 0 THEN 0 ELSE turn - FullTurn

\* the angle from the centre of an arc to the target of the dispatched
\* operation
TargetAngle(arc) ==
    Atan2(PY(OperationTarget) - PY(arc.center), PX(OperationTarget) - PX(arc.center))

\* a circular interpolation is dispatched under the quadrant mode
CircularUnder(quadrant) ==
    /\ Dispatching("Interpolate")
    /\ interpolation_mode \in { "ClockwiseCircular", "CounterclockwiseCircular" }
    /\ quadrant_mode = quadrant

NoQuadrantModeYet ==
    /\ pc \in { "discover", "execute" }
    /\ \A k \in 1..index : commands[k].op # "QuadrantMode"

\* C34 (initial mode): before any quadrant-mode instruction the mode in force
\* is Single-quadrant.
C34_InitialModeSingle == NoQuadrantModeYet => quadrant_mode = "Single"

\* C34: every Arc emitted by a circular interpolation in Single-quadrant mode
\* has |sweep| <= pi/2: the normalised sweep when that is within pi/2, else
\* +pi/2 or -pi/2 with the sign of the normalised sweep; and Single-quadrant
\* is the mode before any quadrant-mode instruction.
C34_SingleQuadrantSweepClamped ==
    [][/\ C34_InitialModeSingle
       /\ CircularUnder("Single") =>
             \A k \in 1..Len(Emitted) :
                 Emitted[k].prim = "Arc" =>
                    LET arc == Emitted[k]
                        computed == NormalisedSweep(interpolation_mode, arc.start_angle,
                                                    TargetAngle(arc))
                    IN  /\ Abs(arc.sweep_angle) <= QuarterTurn
                        /\ Abs(computed) <= QuarterTurn => arc.sweep_angle = computed
                        /\ computed > QuarterTurn => arc.sweep_angle = QuarterTurn
                        /\ computed < 0 - QuarterTurn
                              => arc.sweep_angle = 0 - QuarterTurn]_vars

\* C34 witness: with no quadrant-mode instruction in the stream, a clockwise
\* interpolation from (40, 0) about (40, 40) to (80, 0), seven eighths of a
\* turn by the angles, has emitted an Arc of a quarter turn clockwise
C34_SevenEighthsClamped ==
    /\ commands \in ArcStreams
    /\ commands[4].op = "Other"
    /\ commands[5] = SetInterpolationMode("ClockwiseCircular")
    /\ commands[6] = Move(XY(40, 0))
    /\ commands[7] = Interpolate(XY(80, 0), Some(CoordinateOffset(Some(0), Some(40))))
    /\ index = 7
    /\ quadrant_mode = "Single"
    /\ \E k \in 1..Len(layer_primitives) :
          /\ layer_primitives[k].prim = "Arc"
          /\ layer_primitives[k].start_angle = 0 - QuarterTurn
          /\ layer_primitives[k].sweep_angle = 0 - QuarterTurn

\* ---- C35

\* a Move, an Interpolate, or a Flash outside a region is dispatched
OperationDispatched ==
    \/ Dispatching("Move")
    \/ Dispatching("Interpolate")
    \/ Dispatching("Flash") /\ ~in_region

\* the next fetch is a linear interpolation that emits a Line
LineIsNext ==
    /\ Dispatching("Interpolate")
    /\ interpolation_mode = "Linear"
    /\ ~in_region
    /\ IsSome(current_aperture)
    /\ IsStandardCircle(Unwrap(current_aperture))

\* the end of a block replay, which belongs to the flash that started it
ReplayEnds == pc = "execute" /\ ~replay_checked /\ ReplayEnded

\* after a Move, an Interpolate or a Flash outside a region the current
\* position is the operation's target, and a Line starts at the position
\* the interpolation found
C35_PositionIsTarget ==
    [][/\ OperationDispatched => current_pos' = OperationTarget
       /\ LineIsNext =>
             /\ Len(Emitted) = 1
             /\ Emitted[1].prim = "Line"
             /\ Emitted[1].start = current_pos
             /\ Emitted[1].end = OperationTarget]_vars

\* C35: after every Move, every Interpolate and every Flash outside a region
\* the current position equals the operation's target, whether or not a
\* primitive was emitted; and every Line emitted by linear interpolation
\* starts where the previous operation ended: no step other than an operation
\* moves the position just before a Line is emitted.
C35_LineStartsWherePreviousEnded ==
    [][/\ OperationDispatched => current_pos' = OperationTarget
       /\ LineIsNext => Emitted[1].start = current_pos
       /\ (~OperationDispatched /\ ~ReplayEnds /\ current_pos' # current_pos)
             => ~LineIsNext']_vars

\* ---- C36

\* the cached template primitives of a macro aperture
Templates(local_aperture) == local_aperture.aperture.primitives

IsMacroAperture(selected) ==
    /\ IsSome(selected)
    /\ Unwrap(selected).local = "Standard"
    /\ Unwrap(selected).aperture.kind = "MacroPrimitives"

\* primitive is template moved by the vector: its points are shifted and
\* every other field is the template's
MovedBy(template, primitive, vector) ==
    /\ DOMAIN primitive = DOMAIN template
    /\ \A field \in DOMAIN template :
          primitive[field] =
              IF field \in { "center", "origin", "start", "end" }
              THEN Point(PX(template[field]) + PX(vector), PY(template[field]) + PY(vector))
              ELSE template[field]

\* the flashes of the macro streams, in order
MacroFlashPositions ==
    LET first == IF commands[4].op = "Flash" THEN << Point(2, 4) >> ELSE << >>
        second == IF IsSome(commands[5].coords.x) THEN Point(0 - 4, 2) ELSE Point(2, 4)
    IN  first \o << second >>

\* when the macro streams are compiled, the primitives are one group per
\* flash, each the templates moved by the flash position
GroupPerFlash ==
    (commands \in MacroStreams /\ pc = "done" /\ IsMacroAperture(current_aperture)) =>
        LET templates == Templates(Unwrap(current_aperture))
            k == Len(templates)
            flashes == MacroFlashPositions
        IN  /\ Len(layer_primitives) = k * Len(flashes)
            /\ \A g \in 1..Len(flashes) : \A i \in 1..k :
                  MovedBy(templates[i], layer_primitives[(g - 1) * k + i], flashes[g])
            /\ Len(flashes) = 2 =>
                  \A i \in 1..k :
                      MovedBy(layer_primitives[i], layer_primitives[k + i],
                              Point(PX(flashes[2]) - PX(flashes[1]),
                                    PY(flashes[2]) - PY(flashes[1])))

\* C36: a flash of a macro aperture with k cached templates at P appends
\* exactly k primitives in template order, each its template translated by
\* P, and leaves the cached templates as they were; two flashes of the same
\* aperture at P1 and P2 give two groups that differ by the translation
\* P2 - P1.
C36_MacroFlashTranslatesTemplates ==
    [][/\ GroupPerFlash
       /\ (Dispatching("Flash") /\ ~in_region /\ IsMacroAperture(current_aperture)) =>
             LET templates == Templates(Unwrap(current_aperture))
             IN  /\ Len(Emitted) = Len(templates)
                 /\ \A i \in 1..Len(templates) :
                       MovedBy(templates[i], Emitted[i], OperationTarget)
                 /\ SubSeq(layer_primitives', 1, Len(layer_primitives)) = layer_primitives
                 /\ apertures' = apertures
                 /\ current_aperture' = current_aperture]_vars

\* C36 witness: a macro aperture of two templates of different kinds has been
\* flashed at (2, 4) and at (-4, 2)
C36_TwoGroupsOfTwo ==
    /\ commands \in MacroStreams
    /\ pc = "done"
    /\ IsMacroAperture(current_aperture)
    /\ Len(Templates(Unwrap(current_aperture))) = 2
    /\ Templates(Unwrap(current_aperture))[1].prim # Templates(Unwrap(current_aperture))[2].prim
    /\ Len(layer_primitives) = 4
    /\ current_pos = Point(0 - 4, 2)
    /\ layer_primitives[1] # layer_primitives[3]

\* ---- C37

\* the positions (1-based) of the aperture definitions of a code, anywhere in
\* the stream
DefinitionsOf(code) ==
    { k \in 1..Len(commands) :
         commands[k].op = "ApertureDefinition" /\ commands[k].code = code }

\* the positions of the macro definitions of a name, anywhere in the stream
MacrosNamed(name) ==
    { k \in 1..Len(commands) : commands[k].op = "ApertureMacro" /\ commands[k].name = name }

\* the aperture that definition k stands for: the standard aperture, or the
\* expansion of the macro it names, whose definition is the last of that name
\* in the stream; none when the stream has no macro of that name
ApertureOfDefinition(k) ==
    LET aperture == commands[k].aperture
    IN  IF aperture.kind # "Macro" THEN Some(StandardAperture(aperture))
        ELSE IF MacrosNamed(aperture.name) = {} THEN None
        ELSE Some(MacroAperture(
                      ExpandMacro(commands[SetMax(MacrosNamed(aperture.name))],
                                  aperture.args)))

\* the selection dispatched selects the aperture of the last definition of its
\* code
SelectsLastDefinition ==
    LET code == CmdAt(index).code
    IN  DefinitionsOf(code) # {} =>
            current_aperture' = ApertureOfDefinition(SetMax(DefinitionsOf(code)))

\* the definitions of a code that pass 2 does not skip: all but those that
\* name a macro the stream never defines
EffectiveDefinitions(code) ==
    { k \in DefinitionsOf(code) : IsSome(ApertureOfDefinition(k)) }

\* C37 as amended: a selection resolves, wherever it stands in the stream, to
\* the last definition of its code that is not skipped, and to no aperture
\* when there is none; a definition's macro reference resolves to the macro of
\* its name wherever that stands in the stream.
C37_LastEffectiveDefinitionWins ==
    [][Dispatching("SelectAperture") =>
          LET effective == EffectiveDefinitions(CmdAt(index).code)
          IN  current_aperture' =
                  IF effective = {} THEN None
                  ELSE ApertureOfDefinition(SetMax(effective))]_vars

\* C37 witness: the first command, a selection, has selected the expansion of
\* a macro that is the second definition of the code, the macro itself being
\* the last command of the stream
C37_SelectedLaterMacroDefinition ==
    /\ commands \in DefinitionStreams
    /\ commands[3] = ApertureDefinition(10, PlainCircle(2))
    /\ commands[4].op = "Other"
    /\ commands[7] = ApertureDefinition(10, Macro("DONUT", None))
    /\ commands[8].op = "ApertureMacro"
    /\ pc = "execute"
    /\ index = 1
    /\ IsMacroAperture(current_aperture)
    /\ Len(Templates(Unwrap(current_aperture))) = 1

\* C37: definitions are resolved against the whole stream before execution
\* starts: a selection resolves to the definition of its code and a
\* definition's macro reference to the macro of its name even when these
\* appear later in the stream, and every selection of a code that is defined
\* more than once uses the last definition.
C37_SelectionUsesLastDefinition ==
    [][Dispatching("SelectAperture") => SelectsLastDefinition]_vars

\* ---- C38

IsAssignment(node) == node.content = "VariableDefinition"

\* the bindings that precede content node j (1-based), in the order of the
\* claim: argument i to variable i, left to right, then the assignments of the
\* nodes before j in document order
BindingsBefore(args, content, j) ==
    [i \in 1..Len(args) |-> [number |-> i, decimal |-> args[i]]]
        \o [i \in 1..Len(SelectSeq(SubSeq(content, 1, j - 1), IsAssignment)) |->
               LET node == SelectSeq(SubSeq(content, 1, j - 1), IsAssignment)[i]
               IN  [number |-> node.number, decimal |-> DecimalExpression(node.expression)]]

\* the variables after the first m bindings: a binding whose decimal
\* evaluates, against the variables bound so far, sets its variable; one that
\* fails changes nothing
RECURSIVE Bound(_, _)
Bound(bindings, m) ==
    IF m = 0 THEN [variable \in MacroVariables |-> None]
    ELSE LET before == Bound(bindings, m - 1)
             value == macro_decimal_to_f64(bindings[m].decimal, before)
         IN  [variable \in MacroVariables |->
                 IF variable = bindings[m].number /\ value.ok THEN Some(value.value)
                 ELSE before[variable]]

\* what the first n content nodes contribute when node j is evaluated against
\* the variables left by the bindings before it
RECURSIVE ExpectedTemplates(_, _, _)
ExpectedTemplates(args, content, n) ==
    IF n = 0 THEN << >>
    ELSE LET bindings == BindingsBefore(args, content, n)
             result == process_content(content[n], Bound(bindings, Len(bindings))).result
         IN  ExpectedTemplates(args, content, n - 1)
                 \o (IF result.ok /\ IsSome(result.value) THEN << Unwrap(result.value) >>
                     ELSE << >>)

\* C38: during the expansion of a macro aperture argument i is bound to
\* variable i from left to right, so that an argument may reference earlier
\* ones, the assignment nodes then update the variables in document order,
\* each content node is evaluated against the variables left by all
\* arguments and all assignments before it, and an argument or assignment
\* whose expression fails leaves the variables unchanged and does not stop
\* the expansion.
C38_NodesSeeEarlierBindings ==
    [][ExpandingMacro =>
          LET content == Unwrap(MacroDefinition(CmdAt(scan).aperture.name)).content
              given == CmdAt(scan).aperture.args
              args == IF IsSome(given) THEN Unwrap(given) ELSE << >>
          IN  Unwrap(apertures'[CmdAt(scan).code]).aperture.primitives
                  = ExpectedTemplates(args, content, Len(content))]_vars

\* C38 witness: with the arguments 4 and $1 + 2, after the assignment
\* $3 = $1 + 2, a circle of diameter 8 / $2 and a circle of diameter $3 have
\* been cached with the diameters 1 and 6
C38_SecondArgumentFromFirst ==
    /\ commands \in MacroStreams
    /\ pc = "discover"
    /\ scan = 2
    /\ commands[2].aperture.kind = "Macro"
    /\ commands[2].aperture.args =
          Some(<< DecimalValue(4),
                  DecimalExpression(ExprSum(ExprVariable(1), ExprNumber(2))) >>)
    /\ commands[1].content[1] = VariableDefinition(3, ExprSum(ExprVariable(1), ExprNumber(2)))
    /\ IsSome(apertures[10])
    /\ Len(Unwrap(apertures[10]).aperture.primitives) = 2
    /\ Unwrap(apertures[10]).aperture.primitives[1].prim = "Circle"
    /\ Unwrap(apertures[10]).aperture.primitives[1].diameter = 1
    /\ Unwrap(apertures[10]).aperture.primitives[2].prim = "Circle"
    /\ Unwrap(apertures[10]).aperture.primitives[2].diameter = 6

\* ---- C39

\* twice the corners of the box a Rectangle or a Circle covers
TwiceFootprint(primitive) ==
    IF primitive.prim = "Rectangle"
    THEN [min |-> Point(2 * PX(primitive.origin), 2 * PY(primitive.origin)),
          max |-> Point(2 * PX(primitive.origin) + 2 * primitive.width,
                        2 * PY(primitive.origin) + 2 * primitive.height)]
    ELSE [min |-> Point(2 * PX(primitive.center) - primitive.diameter,
                        2 * PY(primitive.center) - primitive.diameter),
          max |-> Point(2 * PX(primitive.center) + primitive.diameter,
                        2 * PY(primitive.center) + primitive.diameter)]

\* twice the box of w by h centred at the point
TwiceNominal(point, w, h) ==
    [min |-> Point(2 * PX(point) - w, 2 * PY(point) - h),
     max |-> Point(2 * PX(point) + w, 2 * PY(point) + h)]

\* the smallest box around the footprints of the primitives
TwiceUnion(primitives) ==
    LET boxes == { TwiceFootprint(primitives[k]) : k \in 1..Len(primitives) }
    IN  [min |-> Point(SetMin({ PX(b.min) : b \in boxes }), SetMin({ PY(b.min) : b \in boxes })),
         max |-> Point(SetMax({ PX(b.max) : b \in boxes }), SetMax({ PY(b.max) : b \in boxes }))]

\* a standard aperture of the kind is selected and flashed outside a region
FlashingStandard(kind) ==
    /\ Dispatching("Flash")
    /\ ~in_region
    /\ IsSome(current_aperture)
    /\ Unwrap(current_aperture).local = "Standard"
    /\ Unwrap(current_aperture).aperture.kind = kind

\* C39: a flash of a rectangle aperture (w by h) at P gives one Rectangle with
\* origin P - (w/2, h/2), width w and height h; a flash of an obround (x by y)
\* gives, in order, one Rectangle whose longer axis is reduced by the shorter
\* one and two Circles of diameter min(x, y), and the box around the three is
\* exactly the x by y box centred at P, for x > y, x < y and x = y.
C39_FlashCoversNominalFootprint ==
    [][/\ FlashingStandard("Rectangle") =>
             LET rect == Unwrap(current_aperture).aperture
             IN  /\ Len(Emitted) = 1
                 /\ Emitted[1].prim = "Rectangle"
                 /\ Emitted[1].width = rect.x
                 /\ Emitted[1].height = rect.y
                 /\ TwiceFootprint(Emitted[1]) = TwiceNominal(OperationTarget, rect.x, rect.y)
       /\ FlashingStandard("Obround") =>
             LET rect == Unwrap(current_aperture).aperture
             IN  /\ Len(Emitted) = 3
                 /\ Emitted[1].prim = "Rectangle"
                 /\ rect.x > rect.y =>
                       Emitted[1].width = rect.x - rect.y /\ Emitted[1].height = rect.y
                 /\ rect.x < rect.y =>
                       Emitted[1].width = rect.x /\ Emitted[1].height = rect.y - rect.x
                 /\ rect.x = rect.y =>
                       { Emitted[1].width, Emitted[1].height } = { 0, rect.x }
                 /\ \A k \in 2..3 :
                       /\ Emitted[k].prim = "Circle"
                       /\ Emitted[k].diameter = Min2(rect.x, rect.y)
                 /\ TwiceUnion(Emitted) = TwiceNominal(OperationTarget, rect.x, rect.y)]_vars

\* C39 witness: an obround of 4 by 4 has been flashed at (2, 4): a Rectangle
\* with one side 0 and two Circles of diameter 4, all three about (2, 4)
C39_SquareObroundFlashed ==
    /\ commands \in FlashStreams
    /\ commands[2] = ApertureDefinition(11, Obround(4, 4))
    /\ commands[4].op = "Other"
    /\ index = 5
    /\ current_pos = Point(2, 4)
    /\ Len(layer_primitives) = 3
    /\ layer_primitives[1].prim = "Rectangle"
    /\ layer_primitives[2] = CircleGerberPrimitive(Point(2, 4), 4, ExposureAdd)
    /\ layer_primitives[3] = layer_primitives[2]

=============================================================================
